---- MODULE Spec2Model ----
(***************************************************************************)
(* terminal-gpt: the turn orchestrator (application/orchestrator.py), the  *)
(* message model (domain/models.py), the OpenRouter client's retry loop    *)
(* and its streaming parser (infrastructure/llm_providers.py).             *)
(*                                                                         *)
(* Spec     runs user turns through process_user_message and               *)
(*          process_user_message_stream, one turn at a time, against a     *)
(*          provider and a plugin registry that answer anything.           *)
(* SpecGen  runs OpenRouterProvider.generate / generate_stream against an  *)
(*          HTTP backend that answers anything.                            *)
(* SpecParse runs OpenRouterProvider._parse_stream_response over any       *)
(*          sequence of stream events.                                     *)
(* SpecFn   applies is_terminal_intent, _manage_conversation_length and    *)
(*          _prepare_context_messages to inputs drawn from bounded sets.   *)
(***************************************************************************)
EXTENDS Integers, Sequences, FiniteSets, TLC

VARIABLES
    conversations,  \* ConversationOrchestrator._conversations: session id -> state
    turn,           \* per session: the locals of the turn in flight, and what it did
    turnsStarted,   \* how many turns have been started
    enable_summarization, \* ConversationOrchestrator.enable_summarization
    gen,            \* the locals of one generate / generate_stream call
    parse,          \* the locals of one _parse_stream_response run
    fn,             \* the last call of a function applied on its own, and its result
    registry,       \* the plugin registry, and the last call made on it
    provider        \* the provider object the turns share: its client, and each turn's call

vars == <<conversations, turn, turnsStarted, enable_summarization, gen, parse, fn,
          registry, provider>>

----------------------------------------------------------------------------
(* Bounds of the model *)

MaxTurns == 2                \* turns started in one behaviour
MaxChunks == 2               \* chunks the provider streams during one turn
max_conversation_length == 3 \* the orchestrator's configured history limit
sliding_window_size == 2     \* the orchestrator's configured context window

(* Python's None for the optional string fields.  An optional list
   (tool_calls) is <<>> for None and for the empty list alike: the code tests
   it by truthiness and never builds a Message with an empty list. *)
None == "<None>"

Truthy(v) == v /= None /\ v /= ""

Sessions == {"s1", "s2"}

----------------------------------------------------------------------------
(* Text: str.lower, str.strip, str.rstrip, str.startswith, len *)

Chr(s, i) == SubSeq(s, i, i)

UpperLetters == "ABCDEFGHIJKLMNOPQRSTUVWXYZ"
LowerLetters == "abcdefghijklmnopqrstuvwxyz"

LowerChar(c) ==
    IF \E i \in 1..26 : Chr(UpperLetters, i) = c
    THEN Chr(LowerLetters, CHOOSE i \in 1..26 : Chr(UpperLetters, i) = c)
    ELSE c

RECURSIVE str_lower(_)
str_lower(s) ==
    IF s = "" THEN "" ELSE LowerChar(Chr(s, 1)) \o str_lower(SubSeq(s, 2, Len(s)))

Whitespace == {" ", "\t", "\n", "\r"}

RECURSIVE str_lstrip(_, _)
str_lstrip(s, chars) ==
    IF s /= "" /\ Chr(s, 1) \in chars
    THEN str_lstrip(SubSeq(s, 2, Len(s)), chars)
    ELSE s

RECURSIVE str_rstrip(_, _)
str_rstrip(s, chars) ==
    IF s /= "" /\ Chr(s, Len(s)) \in chars
    THEN str_rstrip(SubSeq(s, 1, Len(s) - 1), chars)
    ELSE s

str_strip(s) == str_rstrip(str_lstrip(s, Whitespace), Whitespace)

startswith(s, prefix) ==
    Len(prefix) <= Len(s) /\ SubSeq(s, 1, Len(prefix)) = prefix

MaxContentSize == 100000

(* LongText stands for a user text of MaxContentSize + 1 characters that
   begins with the characters written here and goes on with letters. *)
LongText == "bye and a very long text"
len(v) == IF v = LongText THEN MaxContentSize + 1 ELSE Len(v)

----------------------------------------------------------------------------
(* orchestrator.py: terminal intents *)

TERMINAL_INTENTS ==
    {"quit", "exit", "bye", "goodbye", "thanks", "thank you",
     "no", "stop", "end", "close", "later", "see ya", "cya"}

(* A variant that compares the text as typed, without lower-casing it *)
is_terminal_intent_cased(message) ==
    LET normalized == str_rstrip(str_strip(message), {"!", "."})
    IN  \/ normalized \in TERMINAL_INTENTS
        \/ \E intent \in TERMINAL_INTENTS : startswith(normalized, intent)

is_terminal_intent(message) ==
    LET normalized == str_rstrip(str_strip(str_lower(message)), {"!", "."})
    IN  \/ normalized \in TERMINAL_INTENTS
        \/ \E intent \in TERMINAL_INTENTS : startswith(normalized, intent)

----------------------------------------------------------------------------
(* domain/models.py: Message *)

validate_content_size_raises(v) == v /= None /\ len(v) > MaxContentSize
validate_content_size(v) == IF Truthy(v) THEN str_strip(v) ELSE v

validate_name_raises(v) == v /= None /\ str_strip(v) = ""
validate_name(v) == IF Truthy(v) THEN str_strip(v) ELSE None

validate_tool_call_id_raises(v) == v /= None /\ str_strip(v) = ""
validate_tool_call_id(v) == IF Truthy(v) THEN str_strip(v) ELSE v

(* The record the field validators leave *)
MessageFields(role, content, name, tool_calls, tool_call_id) ==
    [role |-> role,
     content |-> validate_content_size(content),
     name |-> validate_name(name),
     tool_calls |-> tool_calls,
     tool_call_id |-> validate_tool_call_id(tool_call_id)]

(* TRUE when the model validator accepts the message *)
validate_tool_message_format(m) ==
    IF m.role = "assistant" /\ m.tool_calls /= <<>>
    THEN TRUE
    ELSE /\ m.role = "tool" => Truthy(m.tool_call_id) /\ Truthy(m.name)
         /\ Truthy(m.content)

MessageRaises(role, content, name, tool_calls, tool_call_id) ==
    \/ validate_content_size_raises(content)
    \/ validate_name_raises(name)
    \/ validate_tool_call_id_raises(tool_call_id)
    \/ ~validate_tool_message_format(
            MessageFields(role, content, name, tool_calls, tool_call_id))

Message(role, content, name, tool_calls, tool_call_id) ==
    MessageFields(role, content, name, tool_calls, tool_call_id)

(* Message(role=..., content=...) *)
TextMessageRaises(role, content) == MessageRaises(role, content, None, <<>>, None)
TextMessage(role, content) == Message(role, content, None, <<>>, None)

----------------------------------------------------------------------------
(* domain/models.py: ConversationState *)

ConversationState(messages) ==
    [messages |-> messages, awaiting_user |-> FALSE, tool_cycle_count |-> 0]

add_message(conversation, message) ==
    [conversation EXCEPT !.messages = Append(@, message)]

Last(seq, n) ==
    IF Len(seq) <= n THEN seq ELSE SubSeq(seq, Len(seq) - n + 1, Len(seq))

----------------------------------------------------------------------------
(* infrastructure/context_summarizer.py *)

SummarizeMinMessages == 20
SummarizerMaxLength == 100
SummarizationThresholdTenths == 7
SummaryWindow == 15
KeepUserMessages == 10
KeepAssistantMessages == 5

should_summarize(conversation) ==
    LET total_messages == Len(conversation.messages)
    IN  /\ total_messages >= SummarizeMinMessages
        /\ total_messages * 10 >= SummarizationThresholdTenths * SummarizerMaxLength

(* How many messages of role `role` stand at or after position i *)
RoleCountFrom(messages, role, i) ==
    Cardinality({j \in i..Len(messages) : messages[j].role = role})

(* _select_recent_messages: of the last 15 messages, the last 10 user
   messages, the last 5 assistant messages and every tool message, in
   timestamp order, which is the order of the list *)
select_recent_messages(messages) ==
    LET recent_window == Last(messages, SummaryWindow)
        Keep(i) ==
            LET m == recent_window[i]
            IN  \/ m.role = "user"
                   /\ RoleCountFrom(recent_window, "user", i) <= KeepUserMessages
                \/ m.role = "assistant"
                   /\ RoleCountFrom(recent_window, "assistant", i) <= KeepAssistantMessages
                \/ m.role = "tool"
        kept == {i \in 1..Len(recent_window) : Keep(i)}
        Nth(n) == CHOOSE i \in kept : Cardinality({j \in kept : j <= i}) = n
    IN  [n \in 1..Cardinality(kept) |-> recent_window[Nth(n)]]

(* summarize_conversation reads message.content as a string in
   _extract_file_context, _extract_technical_context and
   _generate_summary_text: a message without content raises *)
summarize_conversation_raises(conversation) ==
    \E i \in 1..Len(conversation.messages) : conversation.messages[i].content = None

(* ContextSummary.to_message: the text of the summary is not modelled *)
SummaryText == "Conversation Summary"
summary_to_message == TextMessage("system", SummaryText)

(* A variant in which the order check accepts every list *)
summarized_conversation_accepted(recent_messages) == FALSE

(* ConversationState.validate_messages on [summary_message] + recent_messages:
   the summary message is stamped when it is built, after every kept message,
   so the chronological order check rejects the list when a message follows
   the summary *)
summarized_conversation_raises(recent_messages) == recent_messages /= <<>>

----------------------------------------------------------------------------
(* orchestrator.py: _manage_conversation_length *)

(* A variant that keeps the oldest keep_count messages *)
truncated_conversation_oldest(conversation) ==
    LET keep_count ==
            IF max_conversation_length <= Len(conversation.messages)
            THEN max_conversation_length ELSE Len(conversation.messages)
    IN  ConversationState(SubSeq(conversation.messages, 1, keep_count))

truncated_conversation(conversation) ==
    LET keep_count ==
            IF max_conversation_length <= Len(conversation.messages)
            THEN max_conversation_length ELSE Len(conversation.messages)
    IN  ConversationState(Last(conversation.messages, keep_count))

(* The try block returns summarized_conversation *)
summarization_applies(conversation, summarize) ==
    /\ summarize
    /\ should_summarize(conversation)
    /\ ~summarize_conversation_raises(conversation)
    /\ ~summarized_conversation_raises(
            select_recent_messages(conversation.messages))

(* What the try block raises: re.findall on a content of None in
   summarize_conversation, or the ValidationError of the summarized
   conversation *)
summarization_raised(conversation) ==
    IF ~should_summarize(conversation) THEN None
    ELSE IF summarize_conversation_raises(conversation) THEN "TypeError"
    ELSE IF summarized_conversation_raises(
                select_recent_messages(conversation.messages))
    THEN "ValidationError"
    ELSE None

(* A variant of the handler that answers validation errors only *)
fallback_catches_validation_only(exc) == exc = "ValidationError"

(* except Exception as e: log, and go on to the truncation *)
fallback_catches(exc) == exc \in {"TypeError", "ValidationError"}

(* What _manage_conversation_length raises *)
manage_conversation_length_raises(conversation, summarize) ==
    IF /\ Len(conversation.messages) > max_conversation_length
       /\ summarize
       /\ summarization_raised(conversation) /= None
       /\ ~fallback_catches(summarization_raised(conversation))
    THEN summarization_raised(conversation)
    ELSE None

manage_conversation_length(conversation, summarize) ==
    IF Len(conversation.messages) <= max_conversation_length
    THEN conversation
    ELSE IF summarization_applies(conversation, summarize)
         THEN ConversationState(
                 <<summary_to_message>> \o select_recent_messages(conversation.messages))
         ELSE truncated_conversation(conversation)

----------------------------------------------------------------------------
(* orchestrator.py: _prepare_context_messages *)

SelectRole(messages, system) ==
    SelectSeq(messages, LAMBDA m : (m.role = "system") = system)

(* selected_messages, with the system messages left out of the window *)
selected_messages_recent_only(messages) ==
    IF Len(messages) <= sliding_window_size
    THEN messages
    ELSE Last(SelectRole(messages, FALSE), sliding_window_size)

(* selected_messages: all of them, or the system messages and then the
   regular_messages[-sliding_window_size:] *)
selected_messages(messages) ==
    IF Len(messages) <= sliding_window_size
    THEN messages
    ELSE SelectRole(messages, TRUE)
            \o Last(SelectRole(messages, FALSE), sliding_window_size)

NoKeys == [k \in {} |-> None]

(* formatted_msg: a dict with role and content, tool_calls for an assistant
   message that has them, tool_call_id and name for a tool message that has
   them *)
formatted_msg(msg) ==
    [role |-> msg.role, content |-> msg.content]
    @@ (IF msg.role = "assistant" /\ msg.tool_calls /= <<>>
        THEN [tool_calls |-> msg.tool_calls] ELSE NoKeys)
    @@ (IF msg.role = "tool" /\ Truthy(msg.tool_call_id)
        THEN [tool_call_id |-> msg.tool_call_id] ELSE NoKeys)
    @@ (IF msg.role = "tool" /\ Truthy(msg.name)
        THEN [name |-> msg.name] ELSE NoKeys)

prepare_context_messages(messages) ==
    LET selected == selected_messages(messages)
    IN  [i \in 1..Len(selected) |-> formatted_msg(selected[i])]

(* The conversation after _prepare_context_messages cut it to the window in
   place *)
conversation_after_prepare_windowed(conversation) ==
    [conversation EXCEPT !.messages = selected_messages(@)]

(* The conversation after _prepare_context_messages: the function reads
   conversation.messages and assigns to locals only *)
conversation_after_prepare(conversation) == conversation

----------------------------------------------------------------------------
(* domain/plugins.py: PluginRegistry *)

PluginNames == {"calculator", "read_file"}

(* A plugin object: two objects may carry the same name *)
Plugin(name, object) == [name |-> name, object |-> object]

PluginObjects == {Plugin(n, o) : n \in PluginNames, o \in {"first", "second"}}

(* self._plugins of a new registry *)
NoPlugins == [x \in {} |-> Plugin("", "")]

(* A variant of register's check that lets every plugin in *)
register_raises_never(plugins, plugin) == FALSE

(* register raises PluginValidationError *)
register_raises(plugins, plugin) == plugin.name \in DOMAIN plugins

(* self._plugins[plugin.name] = plugin *)
register(plugins, plugin) ==
    [x \in (DOMAIN plugins) \cup {plugin.name} |->
        IF x = plugin.name THEN plugin ELSE plugins[x]]

(* get raises PluginValidationError *)
get_raises(plugins, name) == name \notin DOMAIN plugins

get(plugins, name) == plugins[name]

(* register_builtin_plugins: the registry the orchestrator runs with *)
BuiltinPlugins ==
    register(register(NoPlugins, Plugin("read_file", "first")),
             Plugin("calculator", "first"))

(* A registry that holds `plugins` and on which nothing has been called *)
IdleRegistry(plugins) ==
    [plugins |-> plugins,
     op |-> "none",           \* the method called last
     name |-> None,           \* its name argument, or the name of its plugin argument
     raised |-> None,         \* what it raised
     returned |-> None,       \* the object of the plugin get returned
     before |-> plugins,      \* self._plugins before the call
     ran |-> <<>>,            \* the plugins run so far
     ranBefore |-> <<>>,      \* the plugins run before the call
     ops |-> 0]               \* calls made

----------------------------------------------------------------------------
(* llm_providers.py: the provider object and its client.  The orchestrator
   holds one provider; every model call runs inside `async with` on it. *)

(* The call a turn has in flight on the provider *)
IdleTask ==
    [pc |-> "idle",           \* where the call stands
     using |-> 0,             \* the client its request was posted on
     attempt |-> 0,           \* `attempt` of generate's loop
     outcome |-> None]        \* "ok" when generate returned, else what it raised

(* A provider outside every `async with`.  Clients are numbered as
   __aenter__ makes them; client 0 stands for self._client = None. *)
IdleProvider(max_retries) ==
    [max_retries |-> max_retries,
     client |-> 0,            \* self._client
     made |-> 0,              \* clients made so far
     closed |-> {},           \* the clients aclose has been called on
     task |-> [x \in Sessions |-> IdleTask]]

----------------------------------------------------------------------------
(* What the user, the provider and the plugins may send *)

UserTexts == {"hi", "Bye! ", "  ", LongText}

(* A tool call: its id, and the name and the arguments of its function *)
ToolCallTo(id, name, arguments) == [id |-> id, name |-> name, arguments |-> arguments]

ToolCall(id) == ToolCallTo(id, "calculator", "{}")

(* One call, two calls, and batches with a call whose id is empty or missing *)
ToolCallLists ==
    {<<ToolCall("call_1")>>, <<ToolCall("call_1"), ToolCall("call_2")>>, <<ToolCall("")>>,
     <<ToolCall("call_1"), ToolCall("")>>, <<ToolCall(None), ToolCall("call_2")>>}

(* LLMResponse objects generate may return *)
Responses ==
    {[content |-> c, tool_calls |-> <<>>] : c \in {"answer", ""}}
        \cup {[content |-> "", tool_calls |-> l] : l \in ToolCallLists}

(* LLMResponse chunks generate_stream may yield *)
StreamChunks ==
    {[content |-> "Hi", finish_reason |-> None, tool_calls |-> <<>>],
     [content |-> "", finish_reason |-> "stop", tool_calls |-> <<>>]}
        \cup {[content |-> "", finish_reason |-> "tool_calls", tool_calls |-> l] :
                l \in ToolCallLists}

(* What a provider call may raise: an LLMError or anything else *)
ProviderErrors == {"LLMError", "Exception"}

(* How the try block of _execute_tool_calls may end for a call whose plugin
   is run: the result is appended; validate_and_run raises a PluginError
   (input or output validation, or the run itself); or something else is
   raised in the block (json.dumps of the result, publish_plugin_execution) *)
PluginOutcomes == {"ok", "PluginError", "Exception"}

(* The outcomes drawn during a turn *)
TurnPluginOutcomes == {"ok", "PluginError"}

----------------------------------------------------------------------------
(* orchestrator.py: the fixed replies *)

farewell_responses ==
    {"Catch you later!", "No worries, talk soon!", "All good, see ya!",
     "Later! Hit me up if you need anything."}

Apology ==
    "I apologize, but I'm having trouble generating a response right now. Please try again."

TooComplex ==
    "I'm sorry, but this conversation has become too complex. Please start a new conversation."

OwnChunk(content, finish_reason) ==
    [content |-> content, finish_reason |-> finish_reason, tool_calls |-> <<>>]

max_iterations == 5
max_iterations_stream == 3

(* prompt_manager.get_system_prompt: config.load_config always sets it *)
get_system_prompt == "You are Juice"

----------------------------------------------------------------------------
(* The locals of a turn.  terminal, calls, responses, dispatched, failed,
   lateDispatches, chunks, own, result, raised, errorEvents, truncated,
   modelRaised, missingId and callsWhenRaised record what the turn did; the
   code does not read them. *)

IdleTurn ==
    [pc |-> "idle", mode |-> "none", text |-> "",
     terminal |-> FALSE,      \* is_terminal_intent(text)
     conv |-> ConversationState(<<>>),  \* `conversation` of process_user_message(_stream)
     gmsgs |-> <<>>,          \* `conversation.messages` of _generate_assistant_response(_stream)
     iter |-> 0,              \* current_iteration
     cycle |-> FALSE,         \* has_completed_tool_cycle
     tools |-> FALSE,         \* whether the call in flight was given tools
     full |-> "",             \* full_response
     found |-> <<>>,          \* tool_calls_found
     pending |-> <<>>,        \* tool calls _execute_tool_calls has not reached yet
     results |-> <<>>,        \* results of _execute_tool_calls so far
     calls |-> 0,             \* model calls made
     sent |-> <<>>,           \* `messages` of the last model call
     responses |-> <<>>,      \* what generate returned, call by call
     dispatched |-> 0,        \* tool calls handed to the plugin registry
     failed |-> 0,            \* of those, the ones whose plugin failed
     lateDispatches |-> 0,    \* of those, after a tool cycle had completed
     chunks |-> 0,            \* chunks received from the provider and yielded on
     own |-> <<>>,            \* the chunks the orchestrator made itself
     result |-> None,         \* what process_user_message returned
     raised |-> None,         \* the exception that left the entry point
     errorEvents |-> 0,       \* publish_conversation_error calls
     truncated |-> FALSE,     \* _manage_conversation_length dropped messages
     modelRaised |-> None,    \* what generate or generate_stream raised
     missingId |-> FALSE,     \* _execute_tool_calls reached a call without an id
     callsWhenRaised |-> 0]   \* model calls made when either happened

Store(convs, s, c) ==
    [x \in (DOMAIN convs) \cup {s} |-> IF x = s THEN c ELSE convs[x]]

(* start_conversation, when the session is new *)
start_conversation(convs, s) ==
    IF s \in DOMAIN convs
    THEN convs
    ELSE Store(convs, s,
            IF Truthy(get_system_prompt)
            THEN add_message(ConversationState(<<>>),
                             TextMessage("system", get_system_prompt))
            ELSE ConversationState(<<>>))

SetTurn(s, t) == [turn EXCEPT ![s] = t]

Yield(t, chunk) == [t EXCEPT !.own = Append(@, chunk)]

(* How many chunks the consumer of the turn has been given *)
YieldedCount(t) == t.chunks + Len(t.own)

(* except Exception: publish_conversation_error, raise *)
Raise(s, t, convs, exc) ==
    /\ conversations' = convs
    /\ turn' = SetTurn(s, [t EXCEPT !.pc = "done", !.raised = exc,
                                     !.errorEvents = @ + 1])

(* process_user_message, from the return of _generate_assistant_response *)
ReturnBlocking(s, t, convs, response_content) ==
    IF TextMessageRaises("assistant", response_content)
    THEN Raise(s, t, convs, "ValidationError")
    ELSE LET added == add_message(t.conv, TextMessage("assistant", response_content))
             managed == manage_conversation_length(added, enable_summarization)
         IN  /\ conversations' = Store(convs, s, managed)
             /\ turn' = SetTurn(s, [t EXCEPT !.pc = "done", !.conv = managed,
                                              !.result = response_content,
                                              !.truncated = (managed /= added)])

(* _generate_assistant_response: the head of the while loop *)
BlockingLoop(s, t, convs) ==
    IF t.iter < max_iterations
    THEN /\ conversations' = convs
         /\ turn' = SetTurn(s, [t EXCEPT !.pc = "llm", !.iter = @ + 1,
                                          !.calls = @ + 1, !.tools = TRUE,
                                          !.sent = prepare_context_messages(t.gmsgs)])
    ELSE ReturnBlocking(s, t, convs, TooComplex)

(* A variant that commits the generator's rebound conversation *)
StreamCommittedInner(conv, gmsgs) == [conv EXCEPT !.messages = gmsgs]

(* Which local conversation process_user_message_stream commits *)
StreamCommitted(conv, gmsgs) == conv

(* _generate_assistant_response_stream from the end of its loop, and
   process_user_message_stream from the end of the generator *)
StreamLoopExit(s, t, convs) ==
    LET t1 == IF t.iter >= max_iterations_stream
              THEN Yield(t, OwnChunk(TooComplex, "length"))
              ELSE t
        final == StreamCommitted(t.conv, t.gmsgs)
        managed == manage_conversation_length(final, enable_summarization)
    IN  /\ conversations' = Store(convs, s, managed)
        /\ turn' = SetTurn(s, [t1 EXCEPT !.pc = "done", !.conv = managed,
                                          !.truncated = (managed /= final)])

(* _generate_assistant_response_stream: the head of the while loop *)
StreamLoop(s, t, convs) ==
    IF t.iter < max_iterations_stream
    THEN /\ conversations' = convs
         /\ turn' = SetTurn(s, [t EXCEPT !.pc = "stream", !.iter = @ + 1,
                                          !.calls = @ + 1, !.tools = ~t.cycle,
                                          !.sent = prepare_context_messages(t.gmsgs),
                                          !.full = "", !.found = <<>>])
    ELSE StreamLoopExit(s, t, convs)

(* A variant in which the LLMError leaves the loop as an exception *)
CaughtLLMErrorReraised(s, t, convs) == Raise(s, t, convs, "LLMError")

(* An LLMError caught in the loop *)
CaughtLLMError(s, t, convs) ==
    IF t.mode = "blocking"
    THEN ReturnBlocking(s, t, convs, Apology)
    ELSE StreamLoopExit(s, Yield(t, OwnChunk(Apology, "error")), convs)

(* A variant that resets the cycle count only *)
terminal_update_count_only(conversation) ==
    [conversation EXCEPT !.tool_cycle_count = 0]

(* conversation.copy(update=...) on a terminal intent *)
terminal_update(conversation) ==
    [conversation EXCEPT !.tool_cycle_count = 0, !.awaiting_user = TRUE]

(* conversation.copy(update=...) on any other streamed user message *)
new_turn_update(conversation) ==
    [conversation EXCEPT !.tool_cycle_count = 0, !.awaiting_user = FALSE]

NoTurnInFlight == \A x \in Sessions : turn[x].pc = "idle"

(* Session ids are interchangeable: a turn runs on a session already in use
   or on the first one not yet in use. *)
SessionOrder == <<"s1", "s2">>

MayBegin(s) ==
    \/ s \in DOMAIN conversations
    \/ \E i \in 1..Len(SessionOrder) :
            /\ SessionOrder[i] = s
            /\ \A j \in 1..(i - 1) : SessionOrder[j] \in DOMAIN conversations

OtherVars == <<turnsStarted, enable_summarization, gen, parse, fn, registry, provider>>

----------------------------------------------------------------------------
(* process_user_message: from the call to the first model call *)

begin_blocking(s, user_content) ==
    LET convs == start_conversation(conversations, s)
        t == [IdleTurn EXCEPT !.mode = "blocking", !.text = user_content,
                              !.terminal = is_terminal_intent(user_content),
                              !.conv = convs[s]]
    IN  IF TextMessageRaises("user", user_content)
        THEN Raise(s, t, convs, "ValidationError")
        ELSE LET conv == add_message(convs[s], TextMessage("user", user_content))
             IN  BlockingLoop(s, [t EXCEPT !.conv = conv, !.gmsgs = conv.messages],
                              convs)

BeginBlocking(s, user_content) ==
    /\ NoTurnInFlight
    /\ MayBegin(s)
    /\ turnsStarted < MaxTurns
    /\ turnsStarted' = turnsStarted + 1
    /\ begin_blocking(s, user_content)
    /\ UNCHANGED <<enable_summarization, gen, parse, fn, registry, provider>>

(* process_user_message_stream: from the call to the farewell chunk or to the
   first model call *)
BeginStream(s, user_content) ==
    /\ NoTurnInFlight
    /\ MayBegin(s)
    /\ turnsStarted < MaxTurns
    /\ turnsStarted' = turnsStarted + 1
    /\ LET convs == start_conversation(conversations, s)
           t == [IdleTurn EXCEPT !.mode = "stream", !.text = user_content,
                                 !.terminal = is_terminal_intent(user_content),
                                 !.conv = convs[s]]
       IN  IF t.terminal
           THEN LET reset == terminal_update(convs[s])
                IN  IF TextMessageRaises("user", user_content)
                    THEN Raise(s, [t EXCEPT !.conv = reset], convs, "ValidationError")
                    ELSE \E farewell \in farewell_responses :
                         /\ conversations' = convs
                         /\ turn' = SetTurn(s,
                                [Yield(t, OwnChunk(farewell, "stop")) EXCEPT
                                    !.pc = "farewell",
                                    !.full = farewell,
                                    !.conv = add_message(reset,
                                                TextMessage("user", user_content))])
           ELSE LET reset == new_turn_update(convs[s])
                IN  IF TextMessageRaises("user", user_content)
                    THEN Raise(s, [t EXCEPT !.conv = reset], convs, "ValidationError")
                    ELSE LET conv == add_message(reset, TextMessage("user", user_content))
                         IN  StreamLoop(s, [t EXCEPT !.conv = conv,
                                                     !.gmsgs = conv.messages], convs)
    /\ UNCHANGED <<enable_summarization, gen, parse, fn, registry, provider>>

(* process_user_message_stream: the consumer asks for the chunk after the
   farewell *)
ResumeFarewell(s) ==
    /\ turn[s].pc = "farewell"
    /\ LET t == turn[s]
           conv == add_message(t.conv, TextMessage("assistant", t.full))
       IN  /\ conversations' = Store(conversations, s, conv)
           /\ turn' = SetTurn(s, [t EXCEPT !.pc = "done", !.conv = conv])
    /\ UNCHANGED OtherVars

(* _generate_assistant_response, from the return of llm_provider.generate *)
generate_returns(s, llm_response) ==
    LET t == [turn[s] EXCEPT !.responses = Append(@, llm_response)]
    IN  IF llm_response.tool_calls /= <<>>
        THEN /\ conversations' = conversations
             /\ turn' = SetTurn(s, [t EXCEPT !.pc = "tools",
                                             !.pending = llm_response.tool_calls,
                                             !.results = <<>>])
        ELSE ReturnBlocking(s, t, conversations, llm_response.content)

(* _generate_assistant_response, from an exception of llm_provider.generate *)
generate_raises(s, exc) ==
    LET t == [turn[s] EXCEPT !.modelRaised = exc, !.callsWhenRaised = turn[s].calls]
    IN  IF exc = "LLMError"
        THEN CaughtLLMError(s, t, conversations)
        ELSE Raise(s, t, conversations, exc)

(* _generate_assistant_response: llm_provider.generate returns *)
GenerateReturns(s, llm_response) ==
    /\ turn[s].pc = "llm"
    /\ generate_returns(s, llm_response)
    /\ UNCHANGED OtherVars

(* _generate_assistant_response: llm_provider.generate raises *)
GenerateRaises(s, exc) ==
    /\ turn[s].pc = "llm"
    /\ generate_raises(s, exc)
    /\ UNCHANGED OtherVars

(* _generate_assistant_response_stream: generate_stream yields a chunk, which
   is yielded on to the consumer *)
StreamChunk(s, chunk) ==
    /\ turn[s].pc = "stream"
    /\ turn[s].chunks < MaxChunks
    /\ turn' = SetTurn(s, [turn[s] EXCEPT
            !.chunks = @ + 1,
            !.full = @ \o chunk.content,
            !.found = IF chunk.tool_calls /= <<>> /\ @ = <<>>
                      THEN chunk.tool_calls ELSE @])
    /\ UNCHANGED <<conversations, turnsStarted, enable_summarization, gen, parse, fn, registry, provider>>

(* _generate_assistant_response_stream: generate_stream ends *)
StreamEnds(s) ==
    /\ turn[s].pc = "stream"
    /\ LET t == turn[s]
       IN  IF t.found /= <<>>
           THEN /\ conversations' = conversations
                /\ turn' = SetTurn(s, [t EXCEPT
                        !.gmsgs = Append(@, Message("assistant",
                                        IF t.full /= "" THEN t.full ELSE None,
                                        None, t.found, None)),
                        !.pc = "tools",
                        !.pending = t.found,
                        !.results = <<>>])
           ELSE IF t.full /= "" /\ TextMessageRaises("assistant", t.full)
                THEN Raise(s, t, conversations, "ValidationError")
                ELSE StreamLoopExit(s,
                        [t EXCEPT !.gmsgs =
                            IF t.full /= ""
                            THEN Append(@, TextMessage("assistant", t.full))
                            ELSE @],
                        conversations)
    /\ UNCHANGED OtherVars

(* _generate_assistant_response_stream: generate_stream raises *)
StreamRaises(s, exc) ==
    /\ turn[s].pc = "stream"
    /\ LET t == [turn[s] EXCEPT !.modelRaised = exc, !.callsWhenRaised = turn[s].calls]
       IN  IF exc = "LLMError"
           THEN CaughtLLMError(s, t, conversations)
           ELSE Raise(s, t, conversations, exc)
    /\ UNCHANGED OtherVars

----------------------------------------------------------------------------
(* _execute_tool_calls, one tool call at a time, and what follows its return *)

(* The documents json.loads accepts, of the argument strings of the model *)
JsonDocuments == {"{}", "[]", "null"}

json_loads_raises(text) == text \notin JsonDocuments

(* What the try block raises for a call: JSONDecodeError from json.loads,
   PluginValidationError from the registry's get, or what the run of the
   plugin and the lines after it raise ("ok": nothing) *)
raised_in_try(plugins, tool_call, outcome) ==
    IF json_loads_raises(tool_call.arguments) THEN "JSONDecodeError"
    ELSE IF get_raises(plugins, tool_call.name) THEN "PluginValidationError"
    ELSE outcome

(* except PluginError catches it *)
is_plugin_error(exc) == exc \in {"PluginError", "PluginValidationError"}

(* json.dumps({"error": ..., "plugin_name": ...}) *)
error_body(error, plugin_name) ==
    "{\"error\": \"" \o error \o "\", \"plugin_name\": \"" \o plugin_name \o "\"}"

(* result_content or error_result; str(e) is the name of the exception *)
ResultText(tool_call, exc) ==
    IF exc = "ok" THEN "{\"result\": 4}"
    ELSE IF is_plugin_error(exc) THEN error_body(exc, tool_call.name)
    ELSE error_body("Unexpected error in " \o tool_call.name \o ": " \o exc,
                    tool_call.name)

(* A variant in which the last handler reports success *)
ToolResultUnexpectedPasses(tool_call, exc) ==
    [tool_name |-> tool_call.name, tool_call_id |-> tool_call.id,
     result |-> ResultText(tool_call, exc),
     success |-> (exc = "ok" \/ ~is_plugin_error(exc))]

(* The dict appended to results *)
ToolResult(tool_call, exc) ==
    [tool_name |-> tool_call.name, tool_call_id |-> tool_call.id,
     result |-> ResultText(tool_call, exc), success |-> (exc = "ok")]

(* The tool_call_id the blocking loop gives the tool message (none) *)
blocking_tool_call_id(tool_result) == None

(* The tool_call_id the streaming loop gives the tool message *)
stream_tool_call_id(tool_result) == tool_result.tool_call_id

ToolCallIdFor(mode, tool_result) ==
    IF mode = "blocking"
    THEN blocking_tool_call_id(tool_result)
    ELSE stream_tool_call_id(tool_result)

ToolMessageRaises(mode, r) ==
    MessageRaises("tool", r.result, r.tool_name, <<>>, ToolCallIdFor(mode, r))

ToolMessage(mode, r) ==
    Message("tool", r.result, r.tool_name, <<>>, ToolCallIdFor(mode, r))

(* The streaming loop's own check of a tool result: if not tool_call_id *)
tool_result_id_missing(mode, tool_result) ==
    mode = "stream" /\ ~Truthy(tool_result.tool_call_id)

(* for tool_result in tool_results: conversation.add_message(tool_message),
   up to the first result that is refused *)
ToolsDone(s, t, convs) ==
    LET refused == {i \in 1..Len(t.results) :
                        \/ tool_result_id_missing(t.mode, t.results[i])
                        \/ ToolMessageRaises(t.mode, t.results[i])}
        added(n) == [t EXCEPT !.gmsgs =
                        @ \o [i \in 1..n |-> ToolMessage(t.mode, t.results[i])]]
    IN  IF refused /= {}
        THEN LET first == CHOOSE i \in refused : \A j \in refused : i <= j
             IN  IF tool_result_id_missing(t.mode, t.results[first])
                 THEN CaughtLLMError(s, added(first - 1), convs)
                 ELSE Raise(s, added(first - 1), convs, "ValidationError")
        ELSE IF t.mode = "blocking"
             THEN BlockingLoop(s, added(Len(t.results)), convs)
             ELSE StreamLoop(s, [added(Len(t.results)) EXCEPT !.cycle = TRUE], convs)

(* A variant of the check that lets an empty id pass *)
tool_call_id_missing_none_only(tool_call) == tool_call.id = None

(* if not tool_call_id *)
tool_call_id_missing(tool_call) == ~Truthy(tool_call.id)

ExecuteToolCall(s, outcome) ==
    /\ turn[s].pc = "tools"
    /\ LET t == turn[s]
           tool_call == Head(t.pending)
       IN  IF tool_call_id_missing(tool_call)
           THEN CaughtLLMError(s, [t EXCEPT !.missingId = TRUE,
                                            !.callsWhenRaised = t.calls],
                               conversations)
           ELSE LET exc == raised_in_try(registry.plugins, tool_call, outcome)
                    t1 == [t EXCEPT
                        !.pending = Tail(@),
                        !.results = Append(@, ToolResult(tool_call, exc)),
                        !.dispatched = @ + 1,
                        !.failed = IF exc = "ok" THEN @ ELSE @ + 1,
                        !.lateDispatches = IF t.cycle THEN @ + 1 ELSE @]
                IN  IF t1.pending /= <<>>
                    THEN /\ conversations' = conversations
                         /\ turn' = SetTurn(s, t1)
                    ELSE ToolsDone(s, t1, conversations)
    /\ UNCHANGED OtherVars

(* _execute_tool_calls as a whole, from call i on: the results it returns, or
   the LLMError it raises at a call without an id; outcomes[i] is how the try
   block ends for call i if its plugin is run *)
RECURSIVE execute_tool_calls_from(_, _, _, _, _)
execute_tool_calls_from(plugins, tool_calls, outcomes, i, results) ==
    IF i > Len(tool_calls)
    THEN [results |-> results, raised |-> None]
    ELSE IF tool_call_id_missing(tool_calls[i])
    THEN [results |-> <<>>, raised |-> "LLMError"]
    ELSE execute_tool_calls_from(plugins, tool_calls, outcomes, i + 1,
            Append(results,
                   ToolResult(tool_calls[i],
                              raised_in_try(plugins, tool_calls[i], outcomes[i]))))

execute_tool_calls(plugins, tool_calls, outcomes) ==
    execute_tool_calls_from(plugins, tool_calls, outcomes, 1, <<>>)

(* A variant in which the generator, when it is closed, commits what it has *)
store_when_abandoned_commits(convs, s, t) ==
    Store(convs, s, [t.conv EXCEPT !.messages = t.gmsgs])

(* The store when the generator is closed: GeneratorExit and CancelledError
   are not Exceptions, no handler runs and nothing is assigned *)
store_when_abandoned(convs, s, t) == convs

(* process_user_message_stream: the consumer drops the iteration, or is
   cancelled while it waits for the next chunk *)
Abandon(s) ==
    /\ turn[s].mode = "stream"
    /\ turn[s].pc \in {"stream", "tools", "farewell"}
    /\ conversations' = store_when_abandoned(conversations, s, turn[s])
    /\ turn' = SetTurn(s, [turn[s] EXCEPT !.pc = "abandoned"])
    /\ UNCHANGED OtherVars

(* The entry point has returned or raised, or its generator was closed: its
   frame is gone *)
TurnOver(s) ==
    /\ turn[s].pc \in {"done", "abandoned"}
    /\ turn' = SetTurn(s, IdleTurn)
    /\ UNCHANGED <<conversations, turnsStarted, enable_summarization, gen, parse, fn, registry, provider>>

----------------------------------------------------------------------------
(* llm_providers.py: OpenRouterProvider.generate and generate_stream *)

MaxRetriesBound == 3     \* the largest max_retries a provider is built with
MaxGenChunks == 2        \* chunks the parser yields during one generate_stream

(* An optional integer is <<>> for None and <<n>> for n *)
Digits == "0123456789"
IsDigit(c) == \E i \in 1..10 : Chr(Digits, i) = c
DigitValue(c) == (CHOOSE i \in 1..10 : Chr(Digits, i) = c) - 1

(* int(text) raises ValueError *)
int_raises(text) ==
    text = "" \/ \E i \in 1..Len(text) : ~IsDigit(Chr(text, i))

RECURSIVE int(_)
int(text) ==
    IF text = "" THEN 0
    ELSE 10 * int(SubSeq(text, 1, Len(text) - 1)) + DigitValue(Chr(text, Len(text)))

(* The non-200 responses of the backend: status, whether the body is JSON,
   the body's error.code, and the retry-after header *)
ErrorResponse(status, json, code, retry_after) ==
    [status |-> status, json |-> json, code |-> code, retry_after |-> retry_after]

ErrorResponses ==
    {ErrorResponse(401, TRUE, "invalid_key", None),
     ErrorResponse(400, TRUE, "bad_request", None),
     ErrorResponse(400, TRUE, "content_filter", None),
     ErrorResponse(403, TRUE, "content_filter", None),
     ErrorResponse(403, TRUE, "forbidden", None),
     ErrorResponse(429, TRUE, "rate_limited", None),
     ErrorResponse(429, TRUE, "rate_limited", "5"),
     ErrorResponse(429, TRUE, "rate_limited", "soon"),
     ErrorResponse(503, TRUE, "overloaded", None),
     ErrorResponse(503, FALSE, "", None)}

(* The bodies of the 200 responses of generate *)
OkBodies == {"answer one", "answer two", "malformed"}

(* An exception of a request: its class, the status and retry_after it was
   made from, the attempt that raised it, the class it wraps *)
Error(class, status, retry_after, attempt, wraps) ==
    [class |-> class, status |-> status, retry_after |-> retry_after,
     attempt |-> attempt, wraps |-> wraps]

NoError == Error(None, 0, <<>>, 0, None)

(* No response has been handed to _handle_error *)
NoResponse == ErrorResponse(0, FALSE, "", None)

(* _handle_error: the exception it raises for a non-200 response *)
handle_error(response, attempt) ==
    LET error_code == IF response.json THEN response.code ELSE "unknown"
    IN  IF response.status = 401
        THEN Error("LLMAuthenticationError", response.status, <<>>, attempt, None)
        ELSE IF response.status = 429
        THEN Error("LLMQuotaExceededError", response.status,
                   IF response.retry_after /= None /\ ~int_raises(response.retry_after)
                   THEN <<int(response.retry_after)>>
                   ELSE <<>>,
                   attempt, None)
        ELSE IF response.status >= 500
        THEN Error("LLMServiceUnavailableError", response.status, <<>>, attempt, None)
        ELSE IF response.status = 400
        THEN Error("LLMInvalidRequestError", response.status, <<>>, attempt, None)
        ELSE IF error_code = "content_filter"
        THEN Error("LLMContentFilterError", response.status, <<>>, attempt, None)
        ELSE Error("LLMError", response.status, <<>>, attempt, None)

(* A variant in which only authentication errors end the call at once *)
not_retried_auth_only(e) == e.class = "LLMAuthenticationError"

(* except (LLMAuthenticationError, LLMInvalidRequestError) *)
not_retried(e) ==
    e.class \in {"LLMAuthenticationError", "LLMInvalidRequestError"}

(* except (LLMQuotaExceededError, LLMServiceUnavailableError) *)
retried_as_is(e) ==
    e.class \in {"LLMQuotaExceededError", "LLMServiceUnavailableError"}

(* A variant that gives up one attempt early *)
may_retry_early_stop(attempt, max_retries) == attempt + 1 < max_retries

(* if attempt < self.max_retries *)
may_retry(attempt, max_retries) == attempt < max_retries

(* A variant whose loop runs max_retries times *)
attempts_short(max_retries) == max_retries

(* for attempt in range(self.max_retries + 1) *)
attempts(max_retries) == max_retries + 1

Min(a, b) == IF a <= b THEN a ELSE b

(* A variant of the delay without the cap *)
backoff_delay_uncapped(retry_delay, attempt, max_retry_delay) ==
    retry_delay * (2 ^ attempt)

(* delay = min(self.retry_delay * (2**attempt), self.max_retry_delay) *)
backoff_delay(retry_delay, attempt, max_retry_delay) ==
    Min(retry_delay * (2 ^ attempt), max_retry_delay)

(* OpenRouterProvider.__init__, and the locals of one call at rest *)
Provider(max_retries, retry_delay, max_retry_delay) ==
    [pc |-> "idle", mode |-> "none",
     max_retries |-> max_retries,
     retry_delay |-> retry_delay,
     max_retry_delay |-> max_retry_delay,
     attempt |-> 0,
     last_exception |-> NoError,
     requests |-> 0,          \* requests posted
     errors |-> <<>>,         \* the class of the exception of each failed attempt
     waits |-> <<>>,          \* the delays slept
     events |-> <<>>,         \* the success flags of publish_llm_call
     yielded |-> <<>>,        \* for each chunk yielded, the attempt it came from
     body |-> None,           \* the body of the 200 response received
     response |-> NoResponse, \* the last response handed to _handle_error
     handled |-> NoError,     \* what _handle_error raised for it
     result |-> None,         \* what generate returned
     raised |-> NoError]      \* the exception that left the call

IdleGen == Provider(3, 1, 60)

Providers ==
    {Provider(r, 1, cap) : r \in 0..MaxRetriesBound, cap \in {3, 60}}

(* _parse_response of a 200 body *)
parse_response_raises(body) == body = "malformed"
parse_response(body) == [content |-> body, finish_reason |-> "stop"]

OrchestratorVars == <<conversations, turn, turnsStarted, enable_summarization>>

(* The top of the for loop: post the request of the next attempt, or fall out
   of the loop *)
NextAttempt(g, attempt) ==
    IF attempt < attempts(g.max_retries)
    THEN [g EXCEPT !.pc = "request", !.attempt = attempt, !.requests = @ + 1]
    ELSE [g EXCEPT !.pc = "raised",
                   !.raised = IF g.last_exception /= NoError
                              THEN g.last_exception
                              ELSE Error("LLMError", 0, <<>>, attempt, None)]

(* The except clauses of the loop body *)
OnError(g, e) ==
    LET g1 == [g EXCEPT !.errors = Append(@, e.class)]
    IN  IF not_retried(e)
        THEN [g1 EXCEPT !.events = Append(@, FALSE), !.pc = "raised", !.raised = e]
        ELSE LET last == IF retried_as_is(e)
                         THEN e
                         ELSE Error("LLMError", e.status, <<>>, e.attempt, e.class)
             IN  IF may_retry(g.attempt, g.max_retries)
                 THEN [g1 EXCEPT !.last_exception = last,
                                 !.waits = Append(@, backoff_delay(g.retry_delay,
                                                g.attempt, g.max_retry_delay)),
                                 !.pc = "sleep"]
                 ELSE [g1 EXCEPT !.last_exception = last,
                                 !.events = Append(@, FALSE),
                                 !.pc = "raised", !.raised = last]

(* generate / generate_stream is called *)
Call(mode) ==
    /\ gen.pc = "idle"
    /\ gen' = NextAttempt([gen EXCEPT !.mode = mode], 0)
    /\ UNCHANGED <<OrchestratorVars, parse, fn, registry, provider>>

(* The request is answered with a status other than 200 *)
RequestFails(response) ==
    /\ gen.pc = "request"
    /\ LET e == handle_error(response, gen.attempt)
       IN  gen' = OnError([gen EXCEPT !.response = response, !.handled = e], e)
    /\ UNCHANGED <<OrchestratorVars, parse, fn, registry, provider>>

(* self._client.post raises *)
RequestRaises ==
    /\ gen.pc = "request"
    /\ gen' = OnError(gen, Error("ConnectError", 0, <<>>, gen.attempt, None))
    /\ UNCHANGED <<OrchestratorVars, parse, fn, registry, provider>>

(* generate: the request is answered with status 200 *)
RequestSucceeds(body) ==
    /\ gen.pc = "request"
    /\ gen.mode = "generate"
    /\ LET g == [gen EXCEPT !.body = body]
       IN  gen' = IF parse_response_raises(body)
                  THEN OnError(g, Error("LLMError", 200, <<>>, gen.attempt, None))
                  ELSE [g EXCEPT !.events = Append(@, TRUE), !.pc = "returned",
                                 !.result = parse_response(body)]
    /\ UNCHANGED <<OrchestratorVars, parse, fn, registry, provider>>

(* generate_stream: the request is answered with status 200 *)
StreamOpens ==
    /\ gen.pc = "request"
    /\ gen.mode = "stream"
    /\ gen' = [gen EXCEPT !.pc = "streaming"]
    /\ UNCHANGED <<OrchestratorVars, parse, fn, registry, provider>>

(* generate_stream: the parser yields a chunk, which is yielded on *)
StreamYields ==
    /\ gen.pc = "streaming"
    /\ Len(gen.yielded) < MaxGenChunks
    /\ gen' = [gen EXCEPT !.yielded = Append(@, gen.attempt)]
    /\ UNCHANGED <<OrchestratorVars, parse, fn, registry, provider>>

(* generate_stream: the parser is exhausted *)
StreamCompletes ==
    /\ gen.pc = "streaming"
    /\ gen' = [gen EXCEPT !.events = Append(@, TRUE), !.pc = "returned"]
    /\ UNCHANGED <<OrchestratorVars, parse, fn, registry, provider>>

(* generate_stream: the parser raises LLMError *)
StreamBreaks ==
    /\ gen.pc = "streaming"
    /\ gen' = OnError(gen, Error("LLMError", 200, <<>>, gen.attempt, None))
    /\ UNCHANGED <<OrchestratorVars, parse, fn, registry, provider>>

(* asyncio.sleep(delay) returns; continue *)
BackoffElapses ==
    /\ gen.pc = "sleep"
    /\ gen' = NextAttempt(gen, gen.attempt + 1)
    /\ UNCHANGED <<OrchestratorVars, parse, fn, registry, provider>>

----------------------------------------------------------------------------
(* llm_providers.py: OpenRouterProvider._parse_stream_response *)

MaxLines == 4            \* lines of one streamed response

(* A fragment of delta["tool_calls"]: index is <<>> when the key is absent,
   id, name and arguments are None when the key is absent *)
Fragment(index, id, name, arguments) ==
    [index |-> index, id |-> id, name |-> name, arguments |-> arguments]

(* A line of the response.  kind is "data" for a data line whose JSON has
   choices[0], "error" for one whose JSON has an error key, "nochoice" for
   one whose choices list is empty, "invalid" for one that is not JSON,
   "done" for data: [DONE], "comment" for a line without the data prefix and
   "blank" for an empty line. *)
Line(kind, content, fragments, finish_reason) ==
    [kind |-> kind, content |-> content, fragments |-> fragments,
     finish_reason |-> finish_reason]

PlainLine(kind) == Line(kind, "", <<>>, None)

Lines ==
    {PlainLine("blank"), PlainLine("comment"), PlainLine("invalid"),
     PlainLine("error"), PlainLine("nochoice"), PlainLine("done"),
     Line("data", "Hi", <<>>, None),
     Line("data", "", <<>>, "stop"),
     Line("data", "Hi", <<>>, "stop"),
     Line("data", "", <<>>, "tool_calls"),
     Line("data", "", <<Fragment(<<0>>, "call_a", "calculator", "")>>, None),
     Line("data", "", <<Fragment(<<0>>, None, None, "{\"a\"")>>, None),
     Line("data", "", <<Fragment(<<0>>, None, None, ":1}")>>, "tool_calls"),
     Line("data", "Hi", <<Fragment(<<1>>, "call_b", "read_file", "{}"),
                          Fragment(<<>>, "call_c", "search", None)>>, None)}

(* f"call_{idx}_{int(time.time() * 1000)}" at the one instant of the model *)
IndexText(idx) == Chr(Digits, idx + 1)
default_id(idx) == "call_" \o IndexText(idx) \o "_1700000000000"

(* tc.get("index", 0) *)
fragment_index(tc) == IF tc.index = <<>> THEN 0 ELSE tc.index[1]

(* A variant of the loop body that keeps the last arguments fragment only *)
accumulate_overwrites(p, tc) ==
    LET idx == fragment_index(tc)
        fresh == [id |-> IF tc.id /= None THEN tc.id ELSE default_id(idx),
                  type |-> "function", name |-> "", arguments |-> ""]
        known == idx \in DOMAIN p.buffers
        entry == IF known THEN p.buffers[idx] ELSE fresh
        named == IF tc.name /= None THEN [entry EXCEPT !.name = tc.name] ELSE entry
        argued == IF tc.arguments /= None
                  THEN [named EXCEPT !.arguments = tc.arguments]
                  ELSE named
    IN  [p EXCEPT
            !.buffers = [i \in (DOMAIN p.buffers) \cup {idx} |->
                            IF i = idx THEN argued ELSE p.buffers[i]],
            !.order = IF known THEN @ ELSE Append(@, idx)]

(* The body of `for tc in delta["tool_calls"]` on the buffers so far;
   buffers is the dict, order its keys in insertion order *)
accumulate(p, tc) ==
    LET idx == fragment_index(tc)
        fresh == [id |-> IF tc.id /= None THEN tc.id ELSE default_id(idx),
                  type |-> "function", name |-> "", arguments |-> ""]
        known == idx \in DOMAIN p.buffers
        entry == IF known THEN p.buffers[idx] ELSE fresh
        named == IF tc.name /= None THEN [entry EXCEPT !.name = tc.name] ELSE entry
        argued == IF tc.arguments /= None
                  THEN [named EXCEPT !.arguments = @ \o tc.arguments]
                  ELSE named
    IN  [p EXCEPT
            !.buffers = [i \in (DOMAIN p.buffers) \cup {idx} |->
                            IF i = idx THEN argued ELSE p.buffers[i]],
            !.order = IF known THEN @ ELSE Append(@, idx)]

RECURSIVE accumulate_all(_, _)
accumulate_all(p, fragments) ==
    IF fragments = <<>> THEN p
    ELSE accumulate_all(accumulate(p, Head(fragments)), Tail(fragments))

(* An LLMResponse the parser yields; tool_calls is <<>> for None *)
ParsedChunk(content, finish_reason, tool_calls) ==
    [content |-> content, finish_reason |-> finish_reason, tool_calls |-> tool_calls]

(* list(tool_call_buffers.values()) *)
buffer_values(p) == [k \in 1..Len(p.order) |-> p.buffers[p.order[k]]]

(* if finish_reason == "tool_calls" *)
flushes(finish_reason) == finish_reason = "tool_calls"

(* A variant that holds the text of a line back while tool calls are being
   accumulated *)
yields_of_text_held_back(p, line) ==
    LET content_chunk ==
            IF line.content /= "" /\ DOMAIN p.buffers = {}
            THEN <<ParsedChunk(line.content, None, <<>>)>>
            ELSE <<>>
        finish_chunk ==
            IF flushes(line.finish_reason)
            THEN IF DOMAIN p.buffers /= {}
                 THEN <<ParsedChunk("", line.finish_reason, buffer_values(p))>>
                 ELSE <<>>
            ELSE IF Truthy(line.finish_reason)
                 THEN <<ParsedChunk("", line.finish_reason, <<>>)>>
                 ELSE <<>>
    IN  content_chunk \o finish_chunk

(* The yields of one data line, after its fragments were accumulated *)
yields_of(p, line) ==
    LET content_chunk ==
            IF line.content /= ""
            THEN <<ParsedChunk(line.content, None, <<>>)>>
            ELSE <<>>
        finish_chunk ==
            IF flushes(line.finish_reason)
            THEN IF DOMAIN p.buffers /= {}
                 THEN <<ParsedChunk("", line.finish_reason, buffer_values(p))>>
                 ELSE <<>>
            ELSE IF Truthy(line.finish_reason)
                 THEN <<ParsedChunk("", line.finish_reason, <<>>)>>
                 ELSE <<>>
    IN  content_chunk \o finish_chunk

IdleParse ==
    [pc |-> "idle",
     buffers |-> [i \in {} |-> 0],  \* tool_call_buffers
     order |-> <<>>,                \* its keys, in insertion order
     lines |-> 0,                   \* lines read
     read |-> <<>>,                 \* the lines read, in order
     before |-> <<>>,               \* list(tool_call_buffers.values()) before the last line
     yielded |-> <<>>,              \* the chunks yielded
     flushed |-> <<>>,              \* for each chunk, the lines read when it was yielded
     raised |-> None]

(* _parse_stream_response is called on a response *)
ParseBegins ==
    /\ parse.pc = "idle"
    /\ parse' = [parse EXCEPT !.pc = "reading"]
    /\ UNCHANGED <<OrchestratorVars, gen, fn, registry, provider>>

(* A variant in which an error object is not looked for *)
line_raises_without_error(line) == line.kind = "nochoice"

(* The try block raises something other than JSONDecodeError: the LLMError
   of an error object, or the IndexError of an empty choices list *)
line_raises(line) == line.kind \in {"error", "nochoice"}

(* One round of `async for line in response.aiter_lines()` *)
ParseLine(line) ==
    /\ parse.pc = "reading"
    /\ parse.lines < MaxLines
    /\ LET p == [parse EXCEPT !.lines = @ + 1, !.read = Append(@, line),
                              !.before = buffer_values(parse)]
       IN  parse' =
            IF line.kind \in {"blank", "comment", "invalid"}
            THEN p
            ELSE IF line.kind = "done"
            THEN [p EXCEPT !.pc = "done"]
            ELSE IF line_raises(line)
            THEN [p EXCEPT !.pc = "raised", !.raised = "LLMError"]
            ELSE LET q == accumulate_all(p, line.fragments)
                     ys == yields_of(q, line)
                 IN  [q EXCEPT !.yielded = @ \o ys,
                               !.flushed = @ \o [k \in 1..Len(ys) |-> p.lines]]
    /\ UNCHANGED <<OrchestratorVars, gen, fn, registry, provider>>

(* aiter_lines is exhausted *)
LinesEnd ==
    /\ parse.pc = "reading"
    /\ parse' = [parse EXCEPT !.pc = "done"]
    /\ UNCHANGED <<OrchestratorVars, gen, fn, registry, provider>>

----------------------------------------------------------------------------
(* Functions applied on their own *)

(* The user texts is_terminal_intent is applied to: a phrase of the
   termination set or a casing of one, after optional leading whitespace,
   followed by nothing, punctuation, whitespace or more words; and texts that
   begin with no phrase *)
LeadingPads == {"", " "}
PhraseCasings == TERMINAL_INTENTS \cup {"Thanks", "BYE", "Thank You"}
Continuations ==
    {"", "!", ".", "!!", "! ", " anyway", " for the info about calculators"}

PhraseTexts ==
    {pad \o phrase \o rest :
        pad \in LeadingPads, phrase \in PhraseCasings, rest \in Continuations}

OtherTexts == {"", "  ", "hi", "what is 2 + 2?", "ok thanks", "hello. bye", "!bye"}

FnTexts == PhraseTexts \cup OtherTexts

(* The conversations the conversation functions are applied to.  Message i
   of a conversation has the content "m<i>"; its kind is a role, or "call"
   for an assistant message that carries a tool call and no content. *)
MaxGiven == 5            \* the longest conversation of every shape

MessageKinds == {"system", "user", "assistant", "call", "tool"}

MessageOfKind(kind, i) ==
    IF kind = "call"
    THEN Message("assistant", None, None, <<ToolCall("call_" \o ToString(i))>>, None)
    ELSE IF kind = "tool"
    THEN Message("tool", "m" \o ToString(i), "calculator", <<>>,
                 "call_" \o ToString(i - 1))
    ELSE TextMessage(kind, "m" \o ToString(i))

ConversationOfKinds(kinds) ==
    ConversationState([i \in 1..Len(kinds) |-> MessageOfKind(kinds[i], i)])

(* Long conversations: a chat of alternating user and assistant messages; the
   same with a tail of system messages as long as the summarizer's window;
   the same ending in a tool call and its result *)
LongKinds(n, shape) ==
    [i \in 1..n |->
        IF shape = "systems" /\ i > n - SummaryWindow THEN "system"
        ELSE IF shape = "calls" /\ i = n - 1 THEN "call"
        ELSE IF shape = "calls" /\ i = n THEN "tool"
        ELSE IF i % 2 = 1 THEN "user" ELSE "assistant"]

GivenConversations ==
    {ConversationOfKinds(kinds) :
        kinds \in UNION {[1..n -> MessageKinds] : n \in 0..MaxGiven}}
    \cup {ConversationOfKinds(LongKinds(n, shape)) :
            n \in {19, 20, 69, 70, 71}, shape \in {"chat", "systems", "calls"}}

(* The session stores the functions are applied in: no session, or one
   session that holds a given conversation *)
GivenStores ==
    {[x \in {} |-> ConversationState(<<>>)]}
    \cup {[x \in {"s1"} |-> c] : c \in GivenConversations}

(* No function has been applied *)
IdleFn ==
    [op |-> "none",
     text |-> "",             \* the text argument
     truth |-> FALSE,         \* the boolean returned
     given |-> ConversationState(<<>>),   \* the conversation argument, as passed
     returned |-> ConversationState(<<>>),  \* the conversation returned
     summarized |-> FALSE,    \* the conversation returned is the summarized one
     result |-> <<>>,         \* the message list returned
     previous |-> <<>>,       \* the message list the call before returned
     batch |-> <<>>,          \* the tool calls argument
     outcomes |-> <<>>,       \* how the plugin of each call would end
     raised |-> None,         \* what the function raised
     applied |-> 0]           \* how many times the function was applied

(* _manage_conversation_length(conversation) on the conversation of session s *)
ManageConversationLength(s) ==
    /\ fn.op = "none"
    /\ s \in DOMAIN conversations
    /\ LET conversation == conversations[s]
           managed == manage_conversation_length(conversation, enable_summarization)
           exc == manage_conversation_length_raises(conversation, enable_summarization)
       IN  fn' = IF exc /= None
                 THEN [fn EXCEPT !.op = "manage_conversation_length",
                                 !.given = conversation,
                                 !.raised = exc,
                                 !.applied = 1]
                 ELSE [fn EXCEPT
                        !.op = "manage_conversation_length",
                        !.given = conversation,
                        !.returned = managed,
                        !.result = managed.messages,
                        !.summarized =
                            /\ Len(conversation.messages) > max_conversation_length
                            /\ summarization_applies(conversation, enable_summarization),
                        !.applied = 1]
    /\ UNCHANGED <<OrchestratorVars, gen, parse, registry, provider>>

(* ContextSummarizer.should_summarize(conversation) on the conversation of
   session s *)
ShouldSummarize(s) ==
    /\ fn.op = "none"
    /\ s \in DOMAIN conversations
    /\ fn' = [fn EXCEPT !.op = "should_summarize",
                        !.given = conversations[s],
                        !.truth = should_summarize(conversations[s]),
                        !.applied = 1]
    /\ UNCHANGED <<OrchestratorVars, gen, parse, registry, provider>>

(* process_user_message, the end of a turn: the conversation of session s is
   length-managed and stored *)
StoreManaged(s) ==
    /\ fn.op = "none"
    /\ s \in DOMAIN conversations
    /\ manage_conversation_length_raises(conversations[s], enable_summarization) = None
    /\ LET conversation == conversations[s]
           managed == manage_conversation_length(conversation, enable_summarization)
       IN  /\ fn' = [fn EXCEPT !.op = "store_managed",
                                !.given = conversation,
                                !.returned = managed,
                                !.applied = 1]
           /\ conversations' = Store(conversations, s, managed)
    /\ UNCHANGED <<turn, turnsStarted, enable_summarization, gen, parse, registry, provider>>

(* process_user_message, the start of the next turn: the stored conversation
   with the user message added is passed to _prepare_context_messages *)
NextTurnContext(s, user_content) ==
    /\ fn.op = "store_managed"
    /\ s \in DOMAIN conversations
    /\ LET conversation ==
                add_message(conversations[s], TextMessage("user", user_content))
       IN  fn' = [fn EXCEPT !.op = "next_turn_context",
                            !.text = user_content,
                            !.result = prepare_context_messages(conversation.messages),
                            !.applied = 2]
    /\ UNCHANGED <<OrchestratorVars, gen, parse, registry, provider>>

(* _prepare_context_messages(conversation) on the conversation of session s,
   up to twice in a row *)
PrepareContext(s) ==
    /\ fn.op \in {"none", "prepare_context_messages"}
    /\ fn.applied < 2
    /\ s \in DOMAIN conversations
    /\ LET conversation == conversations[s]
       IN  /\ fn' = [fn EXCEPT
                    !.op = "prepare_context_messages",
                    !.given = IF fn.applied = 0 THEN conversation ELSE @,
                    !.previous = fn.result,
                    !.result = prepare_context_messages(conversation.messages),
                    !.applied = @ + 1]
           /\ conversations' =
                Store(conversations, s, conversation_after_prepare(conversation))
    /\ UNCHANGED <<turn, turnsStarted, enable_summarization, gen, parse, registry, provider>>

(* The tool calls _execute_tool_calls is applied to *)
MaxBatch == 2            \* the longest batch of tool calls

ToolCallIds == {"call_1", "call_2", ""}
ToolNames == {"calculator", "unknown_tool"}
ArgumentTexts == {"{}", "{bad"}

GivenToolCalls ==
    {ToolCallTo(id, name, arguments) :
        id \in ToolCallIds, name \in ToolNames, arguments \in ArgumentTexts}

GivenBatches == UNION {[1..n -> GivenToolCalls] : n \in 0..MaxBatch}

(* _execute_tool_calls(session_id, tool_calls), in a process that has no
   session yet *)
ExecuteToolCalls(tool_calls, outcomes) ==
    /\ fn.op = "none"
    /\ DOMAIN conversations = {}
    /\ LET done == execute_tool_calls(registry.plugins, tool_calls, outcomes)
       IN  fn' = [fn EXCEPT !.op = "execute_tool_calls",
                            !.batch = tool_calls,
                            !.outcomes = outcomes,
                            !.result = done.results,
                            !.raised = done.raised,
                            !.applied = 1]
    /\ UNCHANGED <<OrchestratorVars, gen, parse, registry, provider>>

(* is_terminal_intent(message), in a process that has no session yet *)
IsTerminalIntent(message) ==
    /\ fn.op = "none"
    /\ DOMAIN conversations = {}
    /\ fn' = [fn EXCEPT !.op = "is_terminal_intent", !.text = message,
                        !.truth = is_terminal_intent(message), !.applied = 1]
    /\ UNCHANGED <<OrchestratorVars, gen, parse, registry, provider>>

Init ==
    /\ conversations = [x \in {} |-> ConversationState(<<>>)]
    /\ turn = [x \in Sessions |-> IdleTurn]
    /\ turnsStarted = 0
    /\ enable_summarization = FALSE
    /\ gen = IdleGen
    /\ parse = IdleParse
    /\ fn = IdleFn
    /\ registry = IdleRegistry(BuiltinPlugins)
    /\ provider = IdleProvider(0)

Next ==
    \/ \E s \in Sessions, text \in UserTexts : BeginBlocking(s, text)
    \/ \E s \in Sessions, text \in UserTexts : BeginStream(s, text)
    \/ \E s \in Sessions : ResumeFarewell(s)
    \/ \E s \in Sessions, r \in Responses : GenerateReturns(s, r)
    \/ \E s \in Sessions, exc \in ProviderErrors : GenerateRaises(s, exc)
    \/ \E s \in Sessions, chunk \in StreamChunks : StreamChunk(s, chunk)
    \/ \E s \in Sessions : StreamEnds(s)
    \/ \E s \in Sessions, exc \in ProviderErrors : StreamRaises(s, exc)
    \/ \E s \in Sessions, outcome \in TurnPluginOutcomes : ExecuteToolCall(s, outcome)
    \/ \E s \in Sessions : Abandon(s)
    \/ \E s \in Sessions : TurnOver(s)

Spec == Init /\ [][Next]_vars

InitGen ==
    /\ conversations = [x \in {} |-> ConversationState(<<>>)]
    /\ turn = [x \in Sessions |-> IdleTurn]
    /\ turnsStarted = 0
    /\ enable_summarization = FALSE
    /\ gen \in Providers
    /\ parse = IdleParse
    /\ fn = IdleFn
    /\ registry = IdleRegistry(BuiltinPlugins)
    /\ provider = IdleProvider(0)

NextGen ==
    \/ \E mode \in {"generate", "stream"} : Call(mode)
    \/ \E response \in ErrorResponses : RequestFails(response)
    \/ RequestRaises
    \/ \E body \in OkBodies : RequestSucceeds(body)
    \/ StreamOpens
    \/ StreamYields
    \/ StreamCompletes
    \/ StreamBreaks
    \/ BackoffElapses

SpecGen == InitGen /\ [][NextGen]_vars

NextParse ==
    \/ ParseBegins
    \/ \E line \in Lines : ParseLine(line)
    \/ LinesEnd

SpecParse == Init /\ [][NextParse]_vars

InitFn ==
    /\ conversations \in GivenStores
    /\ turn = [x \in Sessions |-> IdleTurn]
    /\ turnsStarted = 0
    /\ enable_summarization \in BOOLEAN
    /\ gen = IdleGen
    /\ parse = IdleParse
    /\ fn = IdleFn
    /\ registry = IdleRegistry(BuiltinPlugins)
    /\ provider = IdleProvider(0)

NextFn ==
    \/ \E message \in FnTexts : IsTerminalIntent(message)
    \/ \E s \in Sessions : ManageConversationLength(s)
    \/ \E s \in Sessions : ShouldSummarize(s)
    \/ \E s \in Sessions : PrepareContext(s)
    \/ \E s \in Sessions : StoreManaged(s)
    \/ \E s \in Sessions : NextTurnContext(s, "hi")
    \/ /\ fn.op = "none"
       /\ DOMAIN conversations = {}
       /\ \E tool_calls \in GivenBatches :
            \E outcomes \in [1..Len(tool_calls) -> PluginOutcomes] :
                ExecuteToolCalls(tool_calls, outcomes)

SpecFn == InitFn /\ [][NextFn]_vars

----------------------------------------------------------------------------
(* Turns of process_user_message on different sessions of one orchestrator,
   interleaved at their await points.  The backend answers every request it
   is allowed to finish with the same response. *)

ConcurrentTexts == {"hi"}

AnswerResponse == [content |-> "answer", tool_calls |-> <<>>]

SetTask(s, task) == [provider.task EXCEPT ![s] = task]

(* except Exception in generate's loop: sleep and retry, or raise an LLMError
   after the last attempt *)
after_request_error(task) ==
    IF task.attempt < provider.max_retries
    THEN [task EXCEPT !.pc = "sleeping"]
    ELSE [task EXCEPT !.pc = "returned", !.outcome = "LLMError"]

(* await self._client.post(...) of attempt `attempt`: the request goes out on
   the client the provider holds now; no client, or a closed one, raises *)
post_request(task, attempt, client, closed) ==
    LET posting == [task EXCEPT !.attempt = attempt]
    IN  IF client = 0 \/ client \in closed
        THEN after_request_error(posting)
        ELSE [posting EXCEPT !.pc = "posted", !.using = client]

(* process_user_message is called while other turns may be in flight *)
BeginConcurrent(s, user_content) ==
    /\ turn[s].pc = "idle"
    /\ MayBegin(s)
    /\ turnsStarted < MaxTurns
    /\ turnsStarted' = turnsStarted + 1
    /\ begin_blocking(s, user_content)
    /\ UNCHANGED <<enable_summarization, gen, parse, fn, registry, provider>>

(* async with self.llm_provider: __aenter__ makes a client and assigns it to
   self._client; generate finds a client and posts its first request *)
EnterProvider(s) ==
    /\ turn[s].pc = "llm"
    /\ provider.task[s].pc = "idle"
    /\ LET client == provider.made + 1
       IN  provider' = [provider EXCEPT
                !.made = client,
                !.client = client,
                !.task = SetTask(s, post_request(IdleTask, 0, client, provider.closed))]
    /\ UNCHANGED <<OrchestratorVars, gen, parse, fn, registry>>

(* The awaited post ends: with the response, or, on a client that was closed
   under the request, with the response or an error *)
RequestEnds(s, completes) ==
    /\ provider.task[s].pc = "posted"
    /\ completes \/ provider.task[s].using \in provider.closed
    /\ provider' = [provider EXCEPT !.task = SetTask(s,
            IF completes
            THEN [provider.task[s] EXCEPT !.pc = "returned", !.outcome = "ok"]
            ELSE after_request_error(provider.task[s]))]
    /\ UNCHANGED <<OrchestratorVars, gen, parse, fn, registry>>

(* asyncio.sleep(delay) ends and the loop posts the next request *)
RetryRequest(s) ==
    /\ provider.task[s].pc = "sleeping"
    /\ provider' = [provider EXCEPT !.task = SetTask(s,
            post_request(provider.task[s], provider.task[s].attempt + 1,
                         provider.client, provider.closed))]
    /\ UNCHANGED <<OrchestratorVars, gen, parse, fn, registry>>

(* __aexit__: if self._client: await self._client.aclose() *)
ExitCloses(s) ==
    /\ provider.task[s].pc = "returned"
    /\ provider' =
            IF provider.client = 0
            THEN [provider EXCEPT !.task = SetTask(s,
                        [provider.task[s] EXCEPT !.pc = "exited"])]
            ELSE [provider EXCEPT
                    !.closed = @ \cup {provider.client},
                    !.task = SetTask(s, [provider.task[s] EXCEPT !.pc = "closing"])]
    /\ UNCHANGED <<OrchestratorVars, gen, parse, fn, registry>>

(* __aexit__: self._client = None *)
ExitClears(s) ==
    /\ provider.task[s].pc = "closing"
    /\ provider' = [provider EXCEPT
            !.client = 0,
            !.task = SetTask(s, [provider.task[s] EXCEPT !.pc = "exited"])]
    /\ UNCHANGED <<OrchestratorVars, gen, parse, fn, registry>>

(* _generate_assistant_response goes on with what generate returned or raised *)
CallDelivered(s) ==
    /\ turn[s].pc = "llm"
    /\ provider.task[s].pc = "exited"
    /\ IF provider.task[s].outcome = "ok"
       THEN generate_returns(s, AnswerResponse)
       ELSE generate_raises(s, provider.task[s].outcome)
    /\ provider' = [provider EXCEPT !.task = SetTask(s, IdleTask)]
    /\ UNCHANGED <<turnsStarted, enable_summarization, gen, parse, fn, registry>>

InitConcurrent ==
    /\ conversations = [x \in {} |-> ConversationState(<<>>)]
    /\ turn = [x \in Sessions |-> IdleTurn]
    /\ turnsStarted = 0
    /\ enable_summarization = FALSE
    /\ gen = IdleGen
    /\ parse = IdleParse
    /\ fn = IdleFn
    /\ registry = IdleRegistry(BuiltinPlugins)
    /\ provider \in {IdleProvider(max_retries) : max_retries \in 0..MaxRetriesBound}

NextConcurrent ==
    \/ \E s \in Sessions, text \in ConcurrentTexts : BeginConcurrent(s, text)
    \/ \E s \in Sessions : EnterProvider(s)
    \/ \E s \in Sessions, completes \in BOOLEAN : RequestEnds(s, completes)
    \/ \E s \in Sessions : RetryRequest(s)
    \/ \E s \in Sessions : ExitCloses(s)
    \/ \E s \in Sessions : ExitClears(s)
    \/ \E s \in Sessions : CallDelivered(s)
    \/ \E s \in Sessions : TurnOver(s)

SpecConcurrent == InitConcurrent /\ [][NextConcurrent]_vars

----------------------------------------------------------------------------
(* domain/plugins.py: the methods of PluginRegistry, called on a registry
   that starts empty *)

MaxRegistryOps == 4      \* calls made on the registry in one behaviour

(* What validate_and_run does with the arguments: "invalid" when the input
   model rejects them before run is awaited *)
RunOutcomes == {"ok", "invalid", "PluginError"}

(* validate_and_run raises *)
validate_and_run_raises(outcome) ==
    IF outcome = "invalid" THEN "PluginValidationError"
    ELSE IF outcome = "PluginError" THEN "PluginError"
    ELSE None

RegistryCalled(op, name) ==
    [registry EXCEPT !.op = op, !.name = name, !.raised = None,
                     !.returned = None, !.before = registry.plugins,
                     !.ranBefore = registry.ran,
                     !.ops = registry.ops + 1]

Register(plugin) ==
    /\ registry.ops < MaxRegistryOps
    /\ registry' =
            IF register_raises(registry.plugins, plugin)
            THEN [RegistryCalled("register", plugin.name)
                    EXCEPT !.raised = "PluginValidationError"]
            ELSE [RegistryCalled("register", plugin.name)
                    EXCEPT !.plugins = register(registry.plugins, plugin)]
    /\ UNCHANGED <<conversations, turn, turnsStarted, enable_summarization,
                   gen, parse, fn, provider>>

Get(name) ==
    /\ registry.ops < MaxRegistryOps
    /\ registry' =
            IF get_raises(registry.plugins, name)
            THEN [RegistryCalled("get", name)
                    EXCEPT !.raised = "PluginValidationError"]
            ELSE [RegistryCalled("get", name)
                    EXCEPT !.returned = get(registry.plugins, name).object]
    /\ UNCHANGED <<conversations, turn, turnsStarted, enable_summarization,
                   gen, parse, fn, provider>>

execute_tool_call(tool_name, outcome) ==
    /\ registry.ops < MaxRegistryOps
    /\ registry' =
            IF get_raises(registry.plugins, tool_name)
            THEN [RegistryCalled("execute_tool_call", tool_name)
                    EXCEPT !.raised = "PluginValidationError"]
            ELSE LET plugin == get(registry.plugins, tool_name)
                 IN  [RegistryCalled("execute_tool_call", tool_name)
                        EXCEPT !.raised = validate_and_run_raises(outcome),
                               !.returned = plugin.object,
                               !.ran = IF outcome = "invalid" THEN @
                                       ELSE Append(@, plugin)]
    /\ UNCHANGED <<conversations, turn, turnsStarted, enable_summarization,
                   gen, parse, fn, provider>>

InitRegistry ==
    /\ conversations = [x \in {} |-> ConversationState(<<>>)]
    /\ turn = [x \in Sessions |-> IdleTurn]
    /\ turnsStarted = 0
    /\ enable_summarization = FALSE
    /\ gen = IdleGen
    /\ parse = IdleParse
    /\ fn = IdleFn
    /\ registry = IdleRegistry(NoPlugins)
    /\ provider = IdleProvider(0)

NextRegistry ==
    \/ \E plugin \in PluginObjects : Register(plugin)
    \/ \E name \in PluginNames : Get(name)
    \/ \E tool_name \in PluginNames, outcome \in RunOutcomes :
            execute_tool_call(tool_name, outcome)

SpecRegistry == InitRegistry /\ [][NextRegistry]_vars

----------------------------------------------------------------------------
(* Properties of the turns of the orchestrator, under Spec *)

ToolMessagesFor(messages, id) ==
    {i \in 1..Len(messages) :
        messages[i].role = "tool" /\ messages[i].tool_call_id = id}

(* The turn has returned or raised *)
Finished(t) == t.pc = "done"

(* C1: in process_user_message, when the first model response carries one tool
   call with a non-empty id whose plugin succeeds and the second response
   carries text and no tool calls, exactly two model calls are made, exactly
   one tool message with that id is in the stored history, and the call
   returns the second response's text. *)
C1_ToolRoundTrip ==
    \A s \in Sessions :
        LET t == turn[s]
        IN  (/\ Finished(t)
             /\ t.mode = "blocking"
             /\ Len(t.responses) >= 1
             /\ Len(t.responses[1].tool_calls) = 1
             /\ Truthy(t.responses[1].tool_calls[1].id)
             /\ t.dispatched >= 1
             /\ t.failed = 0
             /\ (Len(t.responses) >= 2 =>
                    /\ t.responses[2].tool_calls = <<>>
                    /\ Truthy(t.responses[2].content)))
            => /\ t.calls = 2
               /\ Len(t.responses) = 2
               /\ t.result = t.responses[2].content
               /\ s \in DOMAIN conversations
               /\ Cardinality(ToolMessagesFor(conversations[s].messages,
                                  t.responses[1].tool_calls[1].id)) = 1

(* C2: each tool message in a stored history has a tool_call_id that appears
   in the tool_calls of an assistant message earlier in that history. *)
C2_ToolMessagesLinked ==
    \A s \in DOMAIN conversations :
        LET messages == conversations[s].messages
        IN  \A i \in 1..Len(messages) :
                messages[i].role = "tool" =>
                    \E j \in 1..(i - 1) :
                        /\ messages[j].role = "assistant"
                        /\ \E k \in 1..Len(messages[j].tool_calls) :
                               messages[j].tool_calls[k].id = messages[i].tool_call_id

(* A turn that executed tool calls has ended and its history was stored,
   truncated. *)
C2_Witness ==
    \E s \in DOMAIN conversations :
        /\ Finished(turn[s])
        /\ turn[s].raised = None
        /\ turn[s].dispatched >= 1
        /\ turn[s].truncated

(* C3: process_user_message makes at most 5 model calls per turn; when every
   model response carries tool calls, each executed successfully, it stops
   after the fifth call and returns the too-complex message. *)
C3_StopsAfterFiveCalls ==
    \A s \in Sessions :
        LET t == turn[s]
        IN  /\ t.mode = "blocking" => t.calls <= max_iterations
            /\ (/\ Finished(t)
                /\ t.mode = "blocking"
                /\ Len(t.responses) >= 1
                /\ \A i \in 1..Len(t.responses) :
                       /\ t.responses[i].tool_calls /= <<>>
                       /\ \A k \in 1..Len(t.responses[i].tool_calls) :
                              Truthy(t.responses[i].tool_calls[k].id)
                /\ t.failed = 0)
               => /\ t.calls = max_iterations
                  /\ t.raised = None
                  /\ t.result = TooComplex

(* C4: in a streaming turn, after one tool-execution cycle has completed no
   further tool call of that turn is dispatched to a plugin. *)
C4_OneToolCyclePerTurn ==
    \A s \in Sessions :
        turn[s].mode = "stream" => turn[s].lateDispatches = 0

(* C9: in process_user_message_stream, when the user text is a terminal intent
   (and is accepted as a user message), no model call and no tool call is
   made, exactly one chunk is yielded, a fixed farewell with finish_reason
   "stop", and once the stream is consumed the stored conversation has
   tool_cycle_count 0, awaiting_user true, and ends with the user message
   followed by that farewell as an assistant message. *)
C9_TerminalIntentStream ==
    \A s \in Sessions :
        LET t == turn[s]
        IN  (/\ t.mode = "stream"
             /\ t.terminal
             /\ ~TextMessageRaises("user", t.text))
            => /\ t.calls = 0
               /\ t.dispatched = 0
               /\ t.raised = None
               /\ t.pc \in {"farewell", "done", "abandoned"}
               /\ YieldedCount(t) = 1
               /\ t.chunks = 0
               /\ t.own[1].content \in farewell_responses
               /\ t.own[1].finish_reason = "stop"
               /\ t.own[1].tool_calls = <<>>
               /\ Finished(t) =>
                    /\ s \in DOMAIN conversations
                    /\ LET c == conversations[s]
                           n == Len(c.messages)
                       IN  /\ c.tool_cycle_count = 0
                           /\ c.awaiting_user = TRUE
                           /\ n >= 2
                           /\ c.messages[n - 1] = TextMessage("user", t.text)
                           /\ c.messages[n] =
                                TextMessage("assistant", t.own[1].content)

(* A streamed farewell turn has been consumed, on a session with a history *)
C9_Witness ==
    \E s \in DOMAIN conversations :
        /\ Finished(turn[s])
        /\ turn[s].mode = "stream"
        /\ turn[s].terminal
        /\ turn[s].raised = None
        /\ Len(turn[s].own) = 1
        /\ Len(conversations[s].messages) >= 4

(* C10: in process_user_message, when the user text is a terminal intent, the
   turn makes no model call and no tool call and returns a fixed farewell. *)
C10_TerminalIntentBlocking ==
    \A s \in Sessions :
        LET t == turn[s]
        IN  (/\ t.mode = "blocking"
             /\ t.terminal
             /\ ~TextMessageRaises("user", t.text))
            => /\ t.calls = 0
               /\ t.dispatched = 0
               /\ Finished(t) => t.result \in farewell_responses

----------------------------------------------------------------------------
(* Properties of the streaming parser, under SpecParse *)

Flushes == {i \in 1..Len(parse.yielded) : parse.yielded[i].tool_calls /= <<>>}

(* C5: the parser yields at most one chunk whose tool_calls is non-null, and
   every tool call in it is complete: a non-empty function name, and the
   whole arguments string of its index; a partially accumulated tool call is
   never yielded. *)
C5_OneCompleteFlush ==
    /\ Cardinality(Flushes) <= 1
    /\ \A i \in Flushes :
           \A k \in 1..Len(parse.yielded[i].tool_calls) :
               /\ parse.yielded[i].tool_calls[k].name /= ""
               /\ parse.yielded[i].tool_calls[k].arguments =
                      parse.buffers[parse.order[k]].arguments

----------------------------------------------------------------------------
(* Properties of the retry loop, under SpecGen *)

Ended(g) == g.pc \in {"returned", "raised"}

OnlyRetryable(g) ==
    \A i \in 1..Len(g.errors) :
        g.errors[i] \in {"LLMQuotaExceededError", "LLMServiceUnavailableError"}

(* C6: with max_retries = R, when the first k <= R requests of a generate
   call fail with service-unavailable or rate-limit errors and request k+1
   succeeds, generate performs exactly k+1 requests and returns the
   successful response. *)
C6_RetryThenSuccess ==
    (/\ gen.mode = "generate"
     /\ Ended(gen)
     /\ OnlyRetryable(gen)
     /\ Len(gen.errors) <= gen.max_retries)
    => /\ gen.pc = "returned"
       /\ gen.requests = Len(gen.errors) + 1
       /\ gen.body /= None
       /\ gen.result = parse_response(gen.body)
       /\ gen.raised = NoError

(* Two failures, then a success, with max_retries = 3: three requests *)
C6_Witness ==
    /\ gen.mode = "generate"
    /\ gen.max_retries = 3
    /\ gen.pc = "returned"
    /\ gen.errors = <<"LLMServiceUnavailableError", "LLMServiceUnavailableError">>
    /\ gen.requests = 3

(* C7: when a request fails with an authentication or an invalid-request
   error, generate and generate_stream raise that error with no backoff wait
   and no further request; when it is the first request, the call performs
   exactly one request. *)
C7_NoRetryOnAuthOrInvalid ==
    \A i \in 1..Len(gen.errors) :
        gen.errors[i] \in {"LLMAuthenticationError", "LLMInvalidRequestError"}
        => /\ i = Len(gen.errors)
           /\ gen.pc = "raised"
           /\ gen.raised.class = gen.errors[i]
           /\ gen.raised.attempt = i - 1
           /\ gen.raised.wraps = None
           /\ gen.requests = i
           /\ Len(gen.waits) = i - 1

(* The first request of a generate_stream with max_retries = 3 was answered
   with an invalid-request error *)
C7_Witness ==
    /\ gen.mode = "stream"
    /\ gen.max_retries = 3
    /\ gen.errors = <<"LLMInvalidRequestError">>
    /\ gen.pc = "raised"
    /\ gen.requests = 1

(* C8: with max_retries = R, when every request of a generate call fails with
   a retryable error, generate performs exactly R+1 requests and then raises
   the error of the last attempt; it never performs more than R+1 requests. *)
C8_RetriesExhausted ==
    /\ gen.requests <= gen.max_retries + 1
    /\ (/\ gen.mode = "generate"
        /\ gen.pc = "raised"
        /\ OnlyRetryable(gen))
       => /\ gen.requests = gen.max_retries + 1
          /\ Len(gen.errors) = gen.max_retries + 1
          /\ gen.raised.class = gen.errors[gen.max_retries + 1]
          /\ gen.raised.attempt = gen.max_retries
          /\ gen.raised.wraps = None
          /\ Len(gen.waits) = gen.max_retries

(* A generate call with max_retries = 3 has raised after four failures *)
C8_Witness ==
    /\ gen.mode = "generate"
    /\ gen.max_retries = 3
    /\ gen.pc = "raised"
    /\ OnlyRetryable(gen)
    /\ gen.requests = 4
    /\ gen.raised.class = "LLMQuotaExceededError"

----------------------------------------------------------------------------
(* Properties of the functions applied on their own, under SpecFn *)

BeginsWithPhrase(text) ==
    \E pad \in LeadingPads, phrase \in PhraseCasings, rest \in Continuations :
        text = pad \o phrase \o rest

NormalizedForm(text) == str_rstrip(str_strip(str_lower(text)), {"!", "."})

(* C11: is_terminal_intent returns true for every input whose normalized
   form equals a phrase of the termination set or begins with one, among
   them "thanks", "Thanks!", "thanks anyway" and "bye". *)
C11_TerminalPhrasesDetected ==
    fn.op = "is_terminal_intent" =>
        /\ fn.text \in {"thanks", "Thanks!", "thanks anyway", "bye"} => fn.truth
        /\ BeginsWithPhrase(fn.text) => fn.truth
        /\ (\E phrase \in TERMINAL_INTENTS :
                \/ NormalizedForm(fn.text) = phrase
                \/ startswith(NormalizedForm(fn.text), phrase)) => fn.truth

(* is_terminal_intent was applied to "Thanks!" *)
C11_Witness ==
    /\ fn.op = "is_terminal_intent"
    /\ fn.text = "Thanks!"
    /\ fn.truth

(* C12: is_terminal_intent returns false for "thanks for the info about
   calculators". *)
C12_SubstantiveMessageNotTerminal ==
    (fn.op = "is_terminal_intent"
        /\ fn.text = "thanks for the info about calculators") => ~fn.truth

IsSuffix(part, whole) ==
    /\ Len(part) <= Len(whole)
    /\ \A i \in 1..Len(part) : part[i] = whole[Len(whole) - Len(part) + i]

(* C13: with summarization enabled or disabled, the result of
   _manage_conversation_length has at most max_conversation_length messages,
   and its messages are a suffix of the input's message list, preceded by
   exactly one synthetic summary message when summarization was applied. *)
C13_ManagedLengthAndSuffix ==
    fn.op = "manage_conversation_length" =>
        /\ Len(fn.result) <= max_conversation_length
        /\ IF fn.summarized
           THEN /\ fn.result /= <<>>
                /\ fn.result[1] = summary_to_message
                /\ \A i \in 1..Len(fn.given.messages) :
                       fn.given.messages[i] /= summary_to_message
                /\ IsSuffix(Tail(fn.result), fn.given.messages)
           ELSE IsSuffix(fn.result, fn.given.messages)

(* Length management ran with summarization enabled on a conversation that
   meets the summarizer's threshold and holds user and assistant messages *)
C13_Witness ==
    /\ fn.op = "manage_conversation_length"
    /\ enable_summarization
    /\ should_summarize(fn.given)
    /\ select_recent_messages(fn.given.messages) /= <<>>
    /\ Len(fn.result) = max_conversation_length

(* C14: with summarization disabled, _manage_conversation_length returns the
   conversation unchanged when it has at most max_conversation_length
   messages, and otherwise one whose messages are exactly the last
   max_conversation_length messages of the input, in the same order. *)
C14_TruncationKeepsLast ==
    (fn.op = "manage_conversation_length" /\ ~enable_summarization) =>
        LET n == Len(fn.given.messages)
        IN  IF n <= max_conversation_length
            THEN fn.returned = fn.given
            ELSE /\ Len(fn.result) = max_conversation_length
                 /\ \A i \in 1..max_conversation_length :
                        fn.result[i] = fn.given.messages[n - max_conversation_length + i]

(* A conversation one message over the limit was truncated *)
C14_Witness ==
    /\ fn.op = "manage_conversation_length"
    /\ ~enable_summarization
    /\ Len(fn.given.messages) = max_conversation_length + 1
    /\ Len(fn.result) = max_conversation_length
    /\ fn.result[1] = fn.given.messages[2]

(* The positions of the system messages and of the other messages of a
   message list, and the j-th smallest position of a set of positions *)
SystemPositions(messages) ==
    {i \in 1..Len(messages) : messages[i].role = "system"}

RegularPositions(messages) ==
    {i \in 1..Len(messages) : messages[i].role /= "system"}

NthPosition(positions, j) ==
    CHOOSE i \in positions : Cardinality({k \in positions : k <= i}) = j

(* The positions of the last n of the other messages *)
RecentPositions(messages, n) ==
    {i \in RegularPositions(messages) :
        Cardinality({k \in RegularPositions(messages) : k >= i}) <= n}

(* The list holds the messages at the given positions, in the order of the
   positions, as the dicts sent to the model *)
HoldsPositions(list, from, messages, positions) ==
    \A j \in 1..Cardinality(positions) :
        list[from + j] = formatted_msg(messages[NthPosition(positions, j)])

(* C16: _prepare_context_messages returns all messages in order when the
   conversation has at most sliding_window_size messages; otherwise it
   returns every system message in original order, followed by the last
   sliding_window_size non-system messages in original order, and nothing
   else. *)
C16_WindowSelection ==
    fn.op = "prepare_context_messages" =>
        LET messages == fn.given.messages
            system == SystemPositions(messages)
            recent == RecentPositions(messages, sliding_window_size)
        IN  IF Len(messages) <= sliding_window_size
            THEN /\ Len(fn.result) = Len(messages)
                 /\ \A i \in 1..Len(messages) :
                        fn.result[i] = formatted_msg(messages[i])
            ELSE /\ Len(fn.result) = Cardinality(system) + Cardinality(recent)
                 /\ HoldsPositions(fn.result, 0, messages, system)
                 /\ HoldsPositions(fn.result, Cardinality(system), messages, recent)

(* A conversation longer than the window, with a system message that is not
   the first message and more other messages than the window holds *)
C16_Witness ==
    /\ fn.op = "prepare_context_messages"
    /\ Len(fn.given.messages) > sliding_window_size
    /\ Cardinality(RegularPositions(fn.given.messages)) > sliding_window_size
    /\ \E i \in SystemPositions(fn.given.messages) : i > 1
    /\ Len(fn.result) < Len(fn.given.messages)

(* C17: calling _prepare_context_messages twice on the same unchanged
   conversation yields identical message lists, and the call leaves the
   conversation and the session store unchanged. *)
C17_WindowReadOnly ==
    fn.op = "prepare_context_messages" =>
        /\ conversations = [x \in {"s1"} |-> fn.given]
        /\ fn.applied = 2 => fn.result = fn.previous

(* The function was called twice on a conversation longer than the window *)
C17_Witness ==
    /\ fn.op = "prepare_context_messages"
    /\ fn.applied = 2
    /\ Len(fn.given.messages) > sliding_window_size
    /\ Len(fn.result) < Len(fn.given.messages)

(* The text is the JSON error body for the plugin of that name *)
IsErrorBody(text, plugin_name) ==
    /\ startswith(text, "{\"error\": \"")
    /\ LET tail == "\", \"plugin_name\": \"" \o plugin_name \o "\"}"
       IN  /\ Len(text) > Len(tail)
           /\ SubSeq(text, Len(text) - Len(tail) + 1, Len(text)) = tail

(* The call fails: no plugin of that name, arguments that are not JSON, or a
   run that does not end well *)
CallFails(tool_call, outcome) ==
    \/ tool_call.name \notin DOMAIN registry.plugins
    \/ tool_call.arguments \notin JsonDocuments
    \/ outcome /= "ok"

(* C21: _execute_tool_calls returns exactly one result per tool call, in call
   order, each carrying that call's tool name and tool_call_id; a plugin
   failure of any kind (unknown tool name, unparseable arguments, validation
   error, execution error) yields a result with success false and a JSON
   error body instead of an exception, and the calls after it are still
   executed.  Stated for batches whose calls all carry an id. *)
C21_OneResultPerCall ==
    (/\ fn.op = "execute_tool_calls"
     /\ \A i \in 1..Len(fn.batch) : Truthy(fn.batch[i].id)) =>
        /\ fn.raised = None
        /\ Len(fn.result) = Len(fn.batch)
        /\ \A i \in 1..Len(fn.batch) :
            /\ fn.result[i].tool_name = fn.batch[i].name
            /\ fn.result[i].tool_call_id = fn.batch[i].id
            /\ fn.result[i].success = ~CallFails(fn.batch[i], fn.outcomes[i])
            /\ CallFails(fn.batch[i], fn.outcomes[i]) =>
                    IsErrorBody(fn.result[i].result, fn.batch[i].name)
            /\ ~CallFails(fn.batch[i], fn.outcomes[i]) =>
                    ~IsErrorBody(fn.result[i].result, fn.batch[i].name)

(* The first call has arguments that are not JSON, the second names no
   registered plugin, and both have a result *)
C21_Witness ==
    /\ fn.op = "execute_tool_calls"
    /\ Len(fn.batch) = 2
    /\ fn.batch[1].id = "call_1" /\ fn.batch[2].id = "call_2"
    /\ fn.batch[1].arguments = "{bad"
    /\ fn.batch[2].name = "unknown_tool" /\ fn.batch[2].arguments = "{}"
    /\ Len(fn.result) = 2
    /\ ~fn.result[1].success /\ ~fn.result[2].success

----------------------------------------------------------------------------
(* Further properties of the turns of the orchestrator, under Spec *)

(* C15: after every completed turn through process_user_message or
   process_user_message_stream, terminal-intent turns included, the stored
   conversation of the session has at most max_conversation_length
   messages. *)
C15_StoredLengthBounded ==
    \A s \in DOMAIN conversations :
        (Finished(turn[s]) /\ turn[s].raised = None)
            => Len(conversations[s].messages) <= max_conversation_length

(* C18: when the model call raises an LLMError at any iteration of a turn,
   process_user_message returns the fixed apology string and
   process_user_message_stream yields an apology chunk with finish_reason
   "error"; the turn makes no further model call and no exception reaches the
   caller. *)
C18_LLMErrorBecomesApology ==
    \A s \in Sessions :
        turn[s].modelRaised = "LLMError" =>
            /\ Finished(turn[s])
            /\ turn[s].raised = None
            /\ turn[s].errorEvents = 0
            /\ turn[s].calls = turn[s].callsWhenRaised
            /\ turn[s].mode = "blocking" => turn[s].result = Apology
            /\ turn[s].mode = "stream" =>
                    \E i \in 1..Len(turn[s].own) :
                        turn[s].own[i] = OwnChunk(Apology, "error")

(* generate_stream raised an LLMError at the second model call of a turn,
   after a tool call had been executed *)
C18_Witness ==
    \E s \in Sessions :
        /\ turn[s].modelRaised = "LLMError"
        /\ turn[s].mode = "stream"
        /\ turn[s].callsWhenRaised = 2
        /\ turn[s].dispatched >= 1

(* C19: no exception escapes process_user_message: when anything other than
   an LLMError is raised during the turn, a conversation-error event is
   published exactly once and the call still returns a canned apology
   string. *)
C19_NothingEscapesBlocking ==
    \A s \in Sessions :
        (Finished(turn[s]) /\ turn[s].mode = "blocking") =>
            /\ turn[s].raised = None
            /\ turn[s].errorEvents <= 1
            /\ turn[s].errorEvents = 1 => turn[s].result = Apology

(* The messages a turn holds and the store holds *)
MessagesAnywhere ==
    UNION {{conversations[s].messages[i] : i \in 1..Len(conversations[s].messages)} :
                s \in DOMAIN conversations}
    \cup UNION {{turn[s].gmsgs[i] : i \in 1..Len(turn[s].gmsgs)} : s \in Sessions}

(* C20: a tool call whose id is missing or empty is never dispatched to the
   plugin registry and never produces a tool message; _execute_tool_calls
   raises an LLM error when it reaches it, the remaining calls of the batch
   are not executed, and the turn makes no further model call. *)
C20_NoDispatchWithoutId ==
    /\ \A s \in Sessions : \A i \in 1..Len(turn[s].results) :
            Truthy(turn[s].results[i].tool_call_id)
    /\ \A m \in MessagesAnywhere : m.role = "tool" => Truthy(m.tool_call_id)
    /\ \A s \in Sessions :
        LET t == turn[s]
            batch == IF t.mode = "blocking"
                     THEN t.responses[Len(t.responses)].tool_calls
                     ELSE t.found
        IN  /\ (Finished(t) /\ t.pending /= <<>>) =>
                    /\ t.missingId
                    /\ ~Truthy(Head(t.pending).id)
            /\ t.missingId =>
                    /\ Finished(t)
                    /\ t.pending /= <<>>
                    /\ ~Truthy(Head(t.pending).id)
                    /\ t.pending = SubSeq(batch, Len(t.results) + 1, Len(batch))
                    /\ \A i \in 1..Len(t.results) :
                            t.results[i].tool_call_id = batch[i].id
                    /\ t.calls = t.callsWhenRaised
                    /\ t.raised = None
                    /\ t.mode = "blocking" => t.result = Apology
                    /\ t.mode = "stream" =>
                            \E i \in 1..Len(t.own) : t.own[i] = OwnChunk(Apology, "error")

(* _execute_tool_calls reached a call without an id after it had dispatched
   a call of the same batch *)
C20_Witness ==
    \E s \in Sessions :
        /\ turn[s].missingId
        /\ Len(turn[s].results) = 1
        /\ turn[s].dispatched = 1

(* C22: when process_user_message or process_user_message_stream rejects its
   input for validation (empty or oversized user text), the session store is
   the same after the call as before it: no session is created and no message
   is added to any conversation. *)
C22_RejectedInputLeavesStore ==
    [][\A s \in Sessions :
            (/\ turn[s].pc = "idle"
             /\ turn'[s].pc = "done"
             /\ turn'[s].raised = "ValidationError")
                => conversations' = conversations]_vars

(* C24: if the consumer stops iterating process_user_message_stream before
   the stream ends, the stored conversation of the session contains no
   partial assistant message, no assistant tool_calls message and no tool
   message from the abandoned turn: it holds what it held when the turn
   added the user message, and not that message either. *)
C24_AbandonedStreamStoresNothing ==
    \A s \in Sessions :
        turn[s].pc = "abandoned" =>
            LET t == turn[s]
                stored == conversations[s].messages
                own == t.conv.messages
            IN  /\ s \in DOMAIN conversations
                /\ own[Len(own)] = TextMessage("user", t.text)
                /\ stored = SubSeq(own, 1, Len(own) - 1)
                /\ \A j \in 1..Len(stored) :
                        /\ stored[j].role /= "tool"
                        /\ stored[j].tool_calls = <<>>

(* The consumer left after a chunk of text and a tool cycle: the turn held a
   partial text, an assistant tool_calls message and a tool message *)
C24_Witness ==
    \E s \in Sessions :
        /\ turn[s].pc = "abandoned"
        /\ turn[s].chunks >= 1
        /\ turn[s].full /= ""
        /\ \E i \in 1..Len(turn[s].gmsgs) : turn[s].gmsgs[i].role = "tool"
        /\ \E i \in 1..Len(turn[s].gmsgs) : turn[s].gmsgs[i].tool_calls /= <<>>

----------------------------------------------------------------------------
(* Further properties of the streaming parser, under SpecParse *)

(* The tool-call fragments of the data lines among the first n lines read,
   in arrival order *)
RECURSIVE ReceivedUpTo(_)
ReceivedUpTo(n) ==
    IF n = 0 THEN <<>>
    ELSE ReceivedUpTo(n - 1)
            \o (IF parse.read[n].kind = "data" THEN parse.read[n].fragments ELSE <<>>)

(* The fragments of one index *)
RECURSIVE ForIndex(_, _)
ForIndex(frs, idx) ==
    IF frs = <<>> THEN <<>>
    ELSE (IF fragment_index(Head(frs)) = idx THEN <<Head(frs)>> ELSE <<>>)
            \o ForIndex(Tail(frs), idx)

(* The indexes of the fragments, in the order they first arrive *)
RECURSIVE ArrivalOrder(_)
ArrivalOrder(frs) ==
    IF frs = <<>> THEN <<>>
    ELSE LET before == ArrivalOrder(SubSeq(frs, 1, Len(frs) - 1))
             idx == fragment_index(frs[Len(frs)])
         IN  IF \E k \in 1..Len(before) : before[k] = idx
             THEN before
             ELSE Append(before, idx)

(* The argument fragments joined in arrival order *)
RECURSIVE JoinedArguments(_)
JoinedArguments(frs) ==
    IF frs = <<>> THEN ""
    ELSE (IF Head(frs).arguments /= None THEN Head(frs).arguments ELSE "")
            \o JoinedArguments(Tail(frs))

(* The name of the latest fragment that has one *)
RECURSIVE LatestName(_)
LatestName(frs) ==
    IF frs = <<>> THEN ""
    ELSE IF frs[Len(frs)].name /= None THEN frs[Len(frs)].name
    ELSE LatestName(SubSeq(frs, 1, Len(frs) - 1))

(* C27: a flushed chunk has one entry per index received so far; the entry
   of an index has the id of the first fragment of that index (when that
   fragment gives one), the name of the latest fragment of that index that
   has a name, and as arguments the argument fragments of that index joined
   in arrival order; the fragments of other indexes do not enter it. *)
C27_FlushedPerIndex ==
    \A i \in Flushes :
        LET frs == ReceivedUpTo(parse.flushed[i])
            indexes == ArrivalOrder(frs)
            calls == parse.yielded[i].tool_calls
        IN  /\ Len(calls) = Len(indexes)
            /\ \A k \in 1..Len(calls) :
                    LET own == ForIndex(frs, indexes[k])
                    IN  /\ own[1].id /= None => calls[k].id = own[1].id
                        /\ calls[k].name = LatestName(own)
                        /\ calls[k].arguments = JoinedArguments(own)

(* Index 0 was named, and given its arguments in two pieces, around the
   fragments of index 1: the flush holds both calls unmixed *)
C27_Witness ==
    \E i \in Flushes :
        LET calls == parse.yielded[i].tool_calls
        IN  /\ Len(calls) = 2
            /\ calls[1].id = "call_a"
            /\ calls[1].name = "search"
            /\ calls[1].arguments = "{\"a\":1}"
            /\ calls[2].id = "call_b"
            /\ calls[2].arguments = "{}"
            /\ parse.read[2].fragments /= <<>>
            /\ fragment_index(parse.read[2].fragments[1]) = 1

(* The lines read that are events with non-empty content, and the chunks
   yielded that carry content *)
ContentLines ==
    {n \in 1..Len(parse.read) :
        parse.read[n].kind = "data" /\ parse.read[n].content /= ""}

ContentChunks == {i \in 1..Len(parse.yielded) : parse.yielded[i].content /= ""}

(* How many members of a set of numbers are at most n *)
UpTo(set, n) == Cardinality({x \in set : x <= n})

(* C28: every event with non-empty content yields, while that event is
   being processed, exactly one chunk with that content, finish_reason null
   and tool_calls null; the content chunks are yielded in event order,
   whatever tool-call fragments the events carry and the buffers hold. *)
C28_ContentYieldedAtOnce ==
    /\ Cardinality(ContentChunks) = Cardinality(ContentLines)
    /\ \A n \in ContentLines :
            \E i \in ContentChunks :
                /\ UpTo(ContentChunks, i) = UpTo(ContentLines, n)
                /\ parse.flushed[i] = n
                /\ parse.yielded[i] = ParsedChunk(parse.read[n].content, None, <<>>)

(* Text arrived after tool-call fragments had been buffered, and again on a
   line that carries fragments itself: both texts were yielded *)
C28_Witness ==
    /\ Len(parse.read) = 3
    /\ parse.read[1].fragments /= <<>>
    /\ parse.read[1].content = ""
    /\ parse.read[2].content = "Hi"
    /\ parse.read[2].fragments = <<>>
    /\ parse.read[3].content = "Hi"
    /\ parse.read[3].fragments /= <<>>
    /\ Cardinality(ContentChunks) = 2
    /\ Flushes = {}

(* The chunks yielded while line n was being processed *)
ChunksAt(n) == {i \in 1..Len(parse.yielded) : parse.flushed[i] = n}

(* C29: an event that is an error object makes the parser raise LLMError at
   that event: no chunk is yielded for it and no line is read after it.  A
   line that is not valid JSON is skipped: no chunk is yielded for it, the
   tool-call buffers are what they were before it, and nothing is raised. *)
C29_ErrorAbortsInvalidSkipped ==
    /\ \A n \in 1..Len(parse.read) :
            /\ parse.read[n].kind = "error" =>
                /\ n = Len(parse.read)
                /\ parse.pc = "raised"
                /\ parse.raised = "LLMError"
                /\ ChunksAt(n) = {}
            /\ parse.read[n].kind = "invalid" => ChunksAt(n) = {}
    /\ (parse.read /= <<>> /\ parse.read[Len(parse.read)].kind = "invalid") =>
            /\ buffer_values(parse) = parse.before
            /\ parse.raised = None
            /\ parse.pc /= "raised"
    /\ parse.pc = "raised" => parse.lines = Len(parse.read)

(* Fragments were buffered, a line that is not JSON was skipped, a text was
   yielded, and then an error object ended the stream *)
C29_Witness ==
    /\ Len(parse.read) = 4
    /\ parse.read[1].fragments /= <<>>
    /\ parse.read[2].kind = "invalid"
    /\ parse.read[3].content = "Hi"
    /\ parse.read[4].kind = "error"
    /\ parse.raised = "LLMError"
    /\ Len(parse.yielded) = 1
    /\ parse.before /= <<>>

----------------------------------------------------------------------------
(* Further properties of the provider's retry loop, under SpecGen *)

(* C26: _handle_error raises the authentication error for status 401; the
   quota-exceeded error for 429, carrying the integer of the Retry-After
   header when there is one; the service-unavailable error for every status
   from 500 up, whether or not the body is JSON; the content-filter error
   for a body whose error code is "content_filter", status 400 included; the
   invalid-request error for every other 400. *)
C26_ErrorClassification ==
    LET r == gen.response
        e == gen.handled
        filtered == r.json /\ r.code = "content_filter"
    IN  r /= NoResponse =>
            /\ r.status = 401 => e.class = "LLMAuthenticationError"
            /\ r.status = 429 =>
                /\ e.class = "LLMQuotaExceededError"
                /\ (r.retry_after /= None /\ ~int_raises(r.retry_after)) =>
                        e.retry_after = <<int(r.retry_after)>>
            /\ r.status >= 500 => e.class = "LLMServiceUnavailableError"
            /\ (filtered /\ r.status \notin {401, 429} /\ r.status < 500) =>
                    e.class = "LLMContentFilterError"
            /\ (r.status = 400 /\ ~filtered) => e.class = "LLMInvalidRequestError"

(* C30: the wait before retry n (n = 0 for the first retry) is
   retry_delay * 2^n, or max_retry_delay when that is smaller; the waits of a
   call never decrease and none is longer than max_retry_delay.  The
   Retry-After value of a rate-limit response is carried by the error and
   does not enter the wait. *)
C30_BackoffSchedule ==
    /\ \A k \in 1..Len(gen.waits) :
            LET doubled == gen.retry_delay * (2 ^ (k - 1))
            IN  /\ gen.waits[k] =
                        IF doubled <= gen.max_retry_delay
                        THEN doubled ELSE gen.max_retry_delay
                /\ gen.waits[k] <= gen.max_retry_delay
                /\ k > 1 => gen.waits[k - 1] <= gen.waits[k]
    /\ (/\ gen.response.status = 429
        /\ gen.response.retry_after /= None
        /\ ~int_raises(gen.response.retry_after)) =>
            /\ gen.handled.retry_after = <<int(gen.response.retry_after)>>
            /\ (gen.pc = "sleep" /\ gen.handled.attempt = gen.attempt) =>
                    /\ gen.last_exception = gen.handled
                    /\ Len(gen.waits) = gen.attempt + 1
            /\ (gen.pc = "raised" /\ gen.handled.attempt = gen.attempt) =>
                    gen.raised = gen.handled

(* The third wait was capped, and it followed a rate-limit response whose
   Retry-After of 5 seconds is on the error *)
C30_Witness ==
    /\ gen.waits = <<1, 2, 3>>
    /\ gen.max_retry_delay = 3
    /\ gen.pc = "sleep"
    /\ gen.response.status = 429
    /\ gen.last_exception.retry_after = <<5>>

(* C31: a generate call that has posted a request publishes no LLM-call
   event while it is running and exactly one by the time it returns or
   raises, whatever the number of retries; the event's success flag is true
   exactly when the call returned a response. *)
C31_OneEventPerGenerate ==
    (gen.mode = "generate" /\ gen.requests >= 1) =>
        /\ ~Ended(gen) => gen.events = <<>>
        /\ Ended(gen) =>
            /\ Len(gen.events) = 1
            /\ gen.events[1] = (gen.pc = "returned")
            /\ gen.pc = "returned" =>
                    /\ gen.body /= None
                    /\ gen.result = parse_response(gen.body)

(* A call that failed on every attempt it had, after three retries, has
   published its one event, a failure *)
C31_Witness ==
    /\ gen.mode = "generate"
    /\ gen.pc = "raised"
    /\ gen.requests = 4
    /\ Len(gen.waits) = 3
    /\ gen.events = <<FALSE>>

(* C32: a content-filter error is not retried: when a request fails with a
   content-filter error the call raises that error with no backoff wait and
   no further request; when it is the first request, the call performs
   exactly one request. *)
C32_NoRetryOnContentFilter ==
    \A i \in 1..Len(gen.errors) :
        gen.errors[i] = "LLMContentFilterError"
        => /\ i = Len(gen.errors)
           /\ gen.pc = "raised"
           /\ gen.raised.class = "LLMContentFilterError"
           /\ gen.requests = i
           /\ Len(gen.waits) = i - 1

(* C38: the chunks one generate_stream call yields all come from the same
   request attempt. *)
C38_ChunksOfOneAttempt ==
    gen.mode = "stream" =>
        \A i, j \in 1..Len(gen.yielded) : gen.yielded[i] = gen.yielded[j]

----------------------------------------------------------------------------
(* Properties of length management with the summarizer, under SpecFn *)

(* C33: with summarization enabled, when the conversation is over the limit,
   the summarizer's threshold is met and the summary is generated, the result
   of _manage_conversation_length is the synthetic system summary message
   followed by the summarizer's selection of recent messages. *)
C33_SummaryReplacesPrefix ==
    (/\ fn.op = "manage_conversation_length"
     /\ enable_summarization
     /\ Len(fn.given.messages) > max_conversation_length
     /\ should_summarize(fn.given)
     /\ ~summarize_conversation_raises(fn.given))
    => /\ fn.raised = None
       /\ fn.result = <<summary_to_message>>
                        \o select_recent_messages(fn.given.messages)

(* C34: should_summarize returns true exactly when the conversation has at
   least 20 messages and its length divided by the configured
   max_conversation_length is at least 0.7. *)
C34_ThresholdOnConfiguredLength ==
    fn.op = "should_summarize" =>
        LET total_messages == Len(fn.given.messages)
        IN  fn.truth <=>
                /\ total_messages >= 20
                /\ total_messages * 10 >= 7 * max_conversation_length

(* C35: with summarization enabled, when a step of the summarization raises,
   _manage_conversation_length raises nothing and returns exactly the last
   max_conversation_length messages of the conversation. *)
C35_FallbackToTruncation ==
    (/\ fn.op = "manage_conversation_length"
     /\ enable_summarization
     /\ Len(fn.given.messages) > max_conversation_length
     /\ summarization_raised(fn.given) /= None)
    => LET n == Len(fn.given.messages)
       IN  /\ fn.raised = None
           /\ ~fn.summarized
           /\ Len(fn.result) = max_conversation_length
           /\ \A i \in 1..max_conversation_length :
                  fn.result[i] = fn.given.messages[n - max_conversation_length + i]

(* The summarizer met a message without content in a long chat, and length
   management returned the last messages *)
C35_Witness ==
    /\ fn.op = "manage_conversation_length"
    /\ enable_summarization
    /\ summarization_raised(fn.given) = "TypeError"
    /\ Len(fn.given.messages) >= 70
    /\ Len(fn.result) = max_conversation_length

(* C40: when the conversation a turn ends with is the system prompt
   followed by user messages and their replies, the message list the next turn sends to the model begins with
   that system prompt, also when length management truncated the stored
   history in between. *)
C40_SystemPromptStaysFirst ==
    LET given == fn.given.messages
    IN  (/\ fn.op = "next_turn_context"
         /\ Len(given) % 2 = 1
         /\ given[1].role = "system"
         /\ \A i \in 2..Len(given) :
               /\ given[i].role = IF i % 2 = 0 THEN "user" ELSE "assistant"
               /\ given[i].tool_calls = <<>>)
        => /\ fn.result /= <<>>
           /\ fn.result[1] = formatted_msg(given[1])

----------------------------------------------------------------------------
(* Properties of the plugin registry, under SpecRegistry *)

(* C25: register fails with PluginValidationError when a plugin of that name
   is registered, and the registry keeps the plugin it had; get and
   execute_tool_call fail with PluginValidationError for a name that is not
   registered, and no plugin runs.  A call that does not fail that way did
   what it is for. *)
C25_RegistryNames ==
    LET r == registry
        known == r.name \in DOMAIN r.before
    IN  /\ r.op = "register" =>
            /\ known <=> r.raised = "PluginValidationError"
            /\ known => r.plugins = r.before
            /\ ~known =>
                /\ r.raised = None
                /\ DOMAIN r.plugins = DOMAIN r.before \cup {r.name}
                /\ \A x \in DOMAIN r.before : r.plugins[x] = r.before[x]
        /\ r.op \in {"get", "execute_tool_call"} =>
            /\ r.plugins = r.before
            /\ ~known =>
                /\ r.raised = "PluginValidationError"
                /\ r.returned = None
            /\ known => r.returned = r.before[r.name].object
        /\ r.op = "get" /\ known => r.raised = None
        /\ r.op \in {"register", "get"} => r.ran = r.ranBefore
        /\ (r.op = "execute_tool_call" /\ ~known) => r.ran = r.ranBefore
        /\ \A i \in 1..Len(r.ran) :
                r.ran[i].name \in DOMAIN r.plugins /\ r.plugins[r.ran[i].name] = r.ran[i]

(* A second plugin named as a registered one was refused after the first
   had run, in a registry that lacks the other name *)
C25_Witness ==
    /\ DOMAIN registry.plugins /= PluginNames
    /\ registry.op = "register"
    /\ registry.raised = "PluginValidationError"
    /\ registry.name \in DOMAIN registry.plugins
    /\ registry.plugins[registry.name].object = "first"
    /\ registry.ran /= <<>>

----------------------------------------------------------------------------
(* The two entry points compared, under Spec *)

(* The text reply of a turn: what process_user_message returned, or the text
   the last model call of process_user_message_stream streamed *)
Reply(t) == IF t.mode = "blocking" THEN t.result ELSE t.full

(* C36: a turn through either entry point that ended with a text reply of
   the model leaves the same history: the stored conversation ends with the
   user message followed by the assistant's reply. *)
C36_SameHistoryCommitted ==
    \A s \in Sessions :
        LET t == turn[s]
        IN  (/\ Finished(t)
             /\ ~t.terminal
             /\ t.raised = None
             /\ t.modelRaised = None
             /\ Reply(t) \notin {None, "", TooComplex})
            => /\ s \in DOMAIN conversations
               /\ LET messages == conversations[s].messages
                      n == Len(messages)
                  IN  /\ n >= 2
                      /\ messages[n - 1] = TextMessage("user", t.text)
                      /\ messages[n] = TextMessage("assistant", Reply(t))

(* C37: in every message list sent to the model, each tool message is
   preceded by an assistant message whose tool_calls holds the tool
   message's tool_call_id. *)
C37_SentListsLinked ==
    \A s \in Sessions :
        LET sent == turn[s].sent
        IN  \A i \in 1..Len(sent) :
                sent[i].role = "tool" =>
                    \E j \in 1..(i - 1) :
                        /\ sent[j].role = "assistant"
                        /\ "tool_calls" \in DOMAIN sent[j]
                        /\ "tool_call_id" \in DOMAIN sent[i]
                        /\ \E k \in 1..Len(sent[j].tool_calls) :
                               sent[j].tool_calls[k].id = sent[i].tool_call_id

(* C39: a streaming turn makes at most three model calls, and it yields the
   'too complex' chunk (finish_reason "length") only when the iterations
   were used up without a final answer: not after the apology chunk, and
   not when its last model call produced a final text answer. *)
C39_TooComplexOnlyWhenExhausted ==
    \A s \in Sessions :
        LET t == turn[s]
        IN  (Finished(t) /\ t.mode = "stream") =>
                /\ t.calls <= max_iterations_stream
                /\ (\E i \in 1..Len(t.own) : t.own[i] = OwnChunk(TooComplex, "length")) =>
                        /\ \A i \in 1..Len(t.own) : t.own[i] /= OwnChunk(Apology, "error")
                        /\ ~(t.modelRaised = None /\ t.found = <<>> /\ t.full /= "")

----------------------------------------------------------------------------
(* Properties of concurrent turns, under SpecConcurrent *)

(* C23: turns on different sessions are independent under every interleaving
   of their await points: with a backend that answers every request with
   "answer", every turn returns "answer" and stores it, as a turn that runs
   alone does. *)
C23_SessionsIndependent ==
    \A s \in Sessions :
        (Finished(turn[s]) /\ turn[s].mode = "blocking") =>
            /\ turn[s].raised = None
            /\ turn[s].result = "answer"
            /\ conversations[s].messages[Len(conversations[s].messages)]
                    = TextMessage("assistant", "answer")

====
